---- MODULE Spec2Model ----
(***************************************************************************)
(* A state-machine model of the AI code review agent:                      *)
(*   - BaseAgent.review and AgentOrchestrator.review_code                  *)
(*     (src/src/agents/base_agent.py, src/src/core/orchestrator.py);       *)
(*   - the review routes create_review, get_reviews, get_review and        *)
(*     clear_all_reviews over the Repository / Review / ReviewResult       *)
(*     tables (src/src/api/routes/reviews.py, src/src/database/models.py). *)
(*                                                                         *)
(* Encoding of Python values:                                              *)
(*   - a str is a sequence of one-character strings, <<"a", ".", "p">>;    *)
(*   - an Optional[T] is a sequence of length <= 1: <<>> is None and       *)
(*     <<x>> is the value x;                                               *)
(*   - a list is a sequence; a dict is a sequence of entries in insertion  *)
(*     order (Python dicts iterate in insertion order).                    *)
(***************************************************************************)
EXTENDS Integers, Sequences, FiniteSets, TLC

VARIABLES
    \* ---- AgentOrchestrator.review_code, one call --------------------------
    o_pc,            \* "idle" | "gather" | "returned" | "raised"
    o_arg,           \* the agent_types argument as passed (None or a list)
    agent_types,     \* the agent_types list after the None default (line 51-52)
    tasks,           \* tasks[i]: the agent whose review coroutine is task i
    task_state,      \* task_state[i]: "ready" | "suspended" | "done"
    task_outcome,    \* task_outcome[i]: what analyze did in task i (once done)
    results,         \* asyncio.gather's result list, one slot per task
    finished,        \* the task indices in the order in which the tasks finished
    agent_results,   \* the list review_code returns
    events,          \* history: <<"start", i>> and <<"end", i>> of the analyses, in order
    \* ---- the review routes and the database -------------------------------
    repositories,    \* committed rows of table repositories (in insertion order)
    reviews,         \* committed rows of table reviews (in insertion order)
    review_results,  \* committed rows of table review_results (in insertion order)
    reqs,            \* reqs[r]: the state of create_review request r
    resp,            \* the HTTP response produced by the last step, if any
    \* ---- one call of a tool wrapper of utils/static_analysis.py -----------
    t_pc,            \* "idle" | "create" | "write" | "run" | "parse" | "returned" | "raised"
    t_tool,          \* "pylint" | "flake8" | "bandit" | "radon"
    t_code,          \* the code argument
    t_temp,          \* the call's temporary file: "none" | "exists" | "unlinked"
    t_stdout,        \* the stdout of each subprocess.run completed so far
    t_exc,           \* the exception raised inside the wrapper, if any (history)
    t_result,        \* the dictionary returned
    \* ---- one browser session of the dashboard (dashboard/main.py) ---------
    page,            \* the page chosen in the sidebar
    session_state,   \* st.session_state
    d_pc,            \* "idle", or the call the script waits in: "posting", "deleting",
                     \* "listing", "analytics"
    d_req,           \* the create_review request that serves the POST in flight
    d_payload,       \* the JSON payload of the POST in flight
    d_log,           \* history: clicks on Clear All History and DELETE calls, in order
    d_answer,        \* the answer of the API to the call in flight, None before it is served
    d_click,         \* the review_id whose View Details button was pressed for this run
    d_seen,          \* the reviews the Review History page shows
    \* ---- one call of GitHubIntegration.get_file_content -------------------
    g_pc,            \* "idle" | "called" | "returned" | "raised"
    g_in,            \* the arguments, the token, and what the GitHub client answers
    g_args,          \* history: the arguments repo.get_contents was called with
    g_result,        \* what the call returned or raised
    \* ---- one call of PerformanceAgent._check_nested_loops -----------------
    p_pc,            \* "idle" | "loop" | "returned"
    p_code,          \* the code argument
    p_lines,         \* lines
    p_line_num,      \* line_num of the last iteration done (0 before the first)
    p_loop_depth,    \* loop_depth
    p_max_depth,     \* max_depth
    p_start_line,    \* start_line
    p_issues,        \* issues
    p_reset,         \* history: the number of the last line that reset the counters
    w_pc,            \* get_all_python_files: "idle", "walking", "returned", "raised"
    w_in,            \* its arguments and what the client does when it resolves the repository
    w_stack,         \* the calls of get_files_recursive in progress, innermost last
    w_files,         \* files
    w_listings,      \* history: the calls of repo.get_contents by the walk and their answers
    w_fetches,       \* history: the calls of get_file_content and their results
    w_result         \* what the call returned or raised

orchVars == <<o_pc, o_arg, agent_types, tasks, task_state, task_outcome, results,
              finished, agent_results, events>>
apiVars  == <<repositories, reviews, review_results, reqs, resp>>
toolVars == <<t_pc, t_tool, t_code, t_temp, t_stdout, t_exc, t_result>>
dashVars == <<page, session_state, d_pc, d_req, d_payload, d_log, d_answer, d_click, d_seen>>
hubVars == <<g_pc, g_in, g_args, g_result>>
perfVars == <<p_pc, p_code, p_lines, p_line_num, p_loop_depth, p_max_depth, p_start_line,
              p_issues, p_reset>>
walkVars == <<w_pc, w_in, w_stack, w_files, w_listings, w_fetches, w_result>>
libVars == <<hubVars, perfVars, walkVars>>
otherVars == <<dashVars, libVars>>
notHub == <<orchVars, apiVars, toolVars, dashVars, perfVars, walkVars>>
notPerf == <<orchVars, apiVars, toolVars, dashVars, hubVars, walkVars>>
notWalk == <<orchVars, apiVars, toolVars, dashVars, hubVars, perfVars>>
vars     == <<o_pc, o_arg, agent_types, tasks, task_state, task_outcome, results,
              finished, agent_results, events,
              repositories, reviews, review_results, reqs, resp,
              t_pc, t_tool, t_code, t_temp, t_stdout, t_exc, t_result,
              page, session_state, d_pc, d_req, d_payload, d_log, d_answer, d_click, d_seen,
              g_pc, g_in, g_args, g_result,
              p_pc, p_code, p_lines, p_line_num, p_loop_depth, p_max_depth, p_start_line,
              p_issues, p_reset,
              w_pc, w_in, w_stack, w_files, w_listings, w_fetches, w_result>>

-----------------------------------------------------------------------------
(* Python values *)

None == <<>>
Some(x) == <<x>>
IsNone(o) == o = <<>>
Val(o) == o[1]

\* Python truthiness of an Optional[str] / Optional[list]: None and "" are falsy.
Truthy(o) == o # None /\ Val(o) # <<>>

\* str.startswith
StartsWith(s, p) == Len(s) >= Len(p) /\ SubSeq(s, 1, Len(p)) = p

\* str.endswith
EndsWith(s, p) == Len(s) >= Len(p) /\ SubSeq(s, Len(s) - Len(p) + 1, Len(s)) = p

\* `sub in s`
Contains(s, sub) ==
    \E i \in 0..(Len(s) - Len(sub)) : SubSeq(s, i + 1, i + Len(sub)) = sub

\* A character of a str is a string of the model: an ASCII character is the
\* string of that one character ("a", " ", "\t"), any other character is the
\* string of its code point ("U+00E9" for e with acute, "U+2028" for the line
\* separator), so that the module is ASCII whatever encoding it is read in.

\* str.isspace, the characters str.strip() removes: tab, line feed, vertical
\* tab, form feed, carriage return, U+001C..U+001F, space, U+0085, U+00A0,
\* U+1680, U+2000..U+200A, U+2028, U+2029, U+202F, U+205F, U+3000
Whitespace ==
    {" ", "\t", "\n", "\r", "\f", "", "", "", "", "",
     "U+0085", "U+00A0", "U+1680",
     "U+2000", "U+2001", "U+2002", "U+2003", "U+2004", "U+2005", "U+2006",
     "U+2007", "U+2008", "U+2009", "U+200A",
     "U+2028", "U+2029", "U+202F", "U+205F", "U+3000"}

RECURSIVE LStrip(_)
LStrip(s) == IF s # <<>> /\ Head(s) \in Whitespace THEN LStrip(Tail(s)) ELSE s

RECURSIVE RStrip(_)
RStrip(s) ==
    IF s # <<>> /\ s[Len(s)] \in Whitespace THEN RStrip(SubSeq(s, 1, Len(s) - 1)) ELSE s

\* str.strip
Strip(s) == RStrip(LStrip(s))

Range(s) == {s[i] : i \in DOMAIN s}

RECURSIVE SumSeq(_)
SumSeq(s) == IF s = <<>> THEN 0 ELSE Head(s) + SumSeq(Tail(s))

RECURSIVE Concat(_)
Concat(ss) == IF ss = <<>> THEN <<>> ELSE Head(ss) \o Concat(Tail(ss))

-----------------------------------------------------------------------------
(* src/src/core/schemas.py *)

QUALITY == "quality"
SECURITY == "security"
PERFORMANCE == "performance"
DOCUMENTATION == "documentation"

\* list(AgentType): the members in declaration order
AgentTypeList == <<QUALITY, SECURITY, PERFORMANCE, DOCUMENTATION>>
AgentType == Range(AgentTypeList)

\* Issue(severity, issue_type, message, line_number, suggestion, metadata);
\* metadata is a set of <<key, value>> pairs.
Issue(sev, ty, msg, line, sugg, meta) ==
    [severity |-> sev, issue_type |-> ty, message |-> msg, line_number |-> line,
     suggestion |-> sugg, metadata |-> meta]

\* AgentResult(agent_type, success, execution_time, issues, error_message, metadata)
AgentResult(a, ok, t, iss, err, meta) ==
    [agent_type |-> a, success |-> ok, execution_time |-> t, issues |-> iss,
     error_message |-> err, metadata |-> meta]

-----------------------------------------------------------------------------
(* What one run of an agent's analyze does.  analyze is abstract in BaseAgent; *)
(* an outcome records the observable behaviour of one call:                    *)
(*   kind "return"        analyze returned the list `issues`;                  *)
(*   kind "raise"         analyze raised Exception(msg);                       *)
(*   kind "review_raises" review itself raised Exception(msg) outside its try  *)
(*                        block (e.g. AgentResult rejects what analyze         *)
(*                        returned), so the exception reaches asyncio.gather;  *)
(*   elapsed              time.time() - start_time, in clock ticks.            *)

Outcome(kind, iss, msg, t) == [kind |-> kind, issues |-> iss, msg |-> msg, elapsed |-> t]

NoOutcome == Outcome("none", <<>>, "", 0)

OutcomeSet(issueLists, errMsgs, times) ==
    {Outcome("return", iss, "", t) : iss \in issueLists, t \in times}
    \cup {Outcome(k, <<>>, m, t) : k \in {"raise", "review_raises"}, m \in errMsgs, t \in times}

-----------------------------------------------------------------------------
(* src/src/agents/base_agent.py *)

\* BaseAgent._get_metadata
GetMetadata(agent) == [agent_type |-> agent, version |-> "1.0.0"]

\* A mutant of Review: the except branch keeps success = True.
ReviewKeepsSuccess(agent, out) ==
    IF out.kind = "raise"
    THEN AgentResult(agent, TRUE, out.elapsed, <<>>, Some(out.msg), Some(GetMetadata(agent)))
    ELSE AgentResult(agent, TRUE, out.elapsed, out.issues, None, Some(GetMetadata(agent)))

\* BaseAgent.review, for an outcome of kind "return" or "raise": the AgentResult
\* it returns.  issues starts as [] and is assigned only when analyze returns.
Review(agent, out) ==
    IF out.kind = "raise"
    THEN AgentResult(agent, FALSE, out.elapsed, <<>>, Some(out.msg), Some(GetMetadata(agent)))
    ELSE AgentResult(agent, TRUE, out.elapsed, out.issues, None, Some(GetMetadata(agent)))

\* What the coroutine agent.review(...) ends with: a returned AgentResult, or an
\* exception that escapes it.
TaskEnd(agent, out) ==
    IF out.kind = "review_raises"
    THEN [exc |-> TRUE, msg |-> out.msg, value |-> AgentResult(agent, FALSE, 0, <<>>, None, None)]
    ELSE [exc |-> FALSE, msg |-> "", value |-> Review(agent, out)]

-----------------------------------------------------------------------------
(* src/src/core/orchestrator.py *)

\* AgentOrchestrator.__init__: self.agents, keyed by AgentType
Agents == [a \in AgentType |-> a]

\* A mutant of DefaultAgentTypes: an empty list is defaulted like None.
DefaultAgentTypesEmptyToo(at) == IF IsNone(at) \/ Val(at) = <<>> THEN AgentTypeList ELSE Val(at)

\* review_code, lines 51-52
DefaultAgentTypes(at) == IF IsNone(at) THEN AgentTypeList ELSE Val(at)

\* review_code, lines 55-59: one coroutine per agent type found in self.agents
RECURSIVE BuildTasks(_)
BuildTasks(ats) ==
    IF ats = <<>> THEN <<>>
    ELSE (IF Head(ats) \in DOMAIN Agents THEN <<Agents[Head(ats)]>> ELSE <<>>)
         \o BuildTasks(Tail(ats))

\* A mutant of return_exceptions: gather called without return_exceptions=True.
ReturnExceptionsOff == FALSE

\* review_code, line 62: asyncio.gather(*tasks, return_exceptions=True)
return_exceptions == TRUE

\* A mutant of GatherIndex: results collected in completion order.
GatherIndexByCompletion(i, nDone) == nDone + 1

\* asyncio.gather stores the result of its i-th awaitable in slot i of its
\* result list, whatever the number nDone of awaitables that finished before.
GatherIndex(i, nDone) == i

EmptySlot == [exc |-> FALSE, msg |-> "", value |-> AgentResult("", FALSE, 0, <<>>, None, None)]

\* A mutant of ProcessResult: the failed result is labelled with the first
\* requested agent type.
ProcessResultFirstType(ats, i, res) ==
    IF res.exc
    THEN AgentResult(ats[1], FALSE, 0, <<>>, Some(res.msg), None)
    ELSE res.value

\* review_code, lines 66-79: entry i of the returned list
ProcessResult(ats, i, res) ==
    IF res.exc
    THEN AgentResult(ats[i], FALSE, 0, <<>>, Some(res.msg), None)
    ELSE res.value

\* review_code, lines 64-81
ProcessResults(ats, ress) == [i \in DOMAIN ress |-> ProcessResult(ats, i, ress[i])]

\* review_code as a function of its agent_types argument and of what each task
\* does: outs[i] is the outcome of task i.
ReviewCode(at, outs) ==
    LET ats == DefaultAgentTypes(at)
        tks == BuildTasks(ats)
    IN  ProcessResults(ats, [i \in DOMAIN tks |-> TaskEnd(tks[i], outs[i])])

\* AgentOrchestrator before a call of review_code
OrchInit ==
    /\ o_pc = "idle"
    /\ o_arg = None
    /\ agent_types = <<>>
    /\ tasks = <<>>
    /\ task_state = <<>>
    /\ task_outcome = <<>>
    /\ results = <<>>
    /\ finished = <<>>
    /\ agent_results = <<>>
    /\ events = <<>>

-----------------------------------------------------------------------------
(* src/src/database/models.py: rows of the three tables.  A table is the     *)
(* sequence of its committed rows in insertion order.                        *)

\* Repository(id, url); name, platform and owner do not influence any route.
RepositoryRow(id, url) == [id |-> id, url |-> url]

\* models.py:36, created_at = Column(DateTime, default=datetime.utcnow): what
\* the wall clock shows when a row is inserted, as a number that says how it
\* compares with the created_at of the rows in the table.  The clock may show
\* a later time, the time it showed at an earlier insert, or, after it was
\* set back, a time before all of them.
Clock(rows) ==
    IF rows = <<>> THEN {0}
    ELSE LET times == {rows[k].created_at : k \in DOMAIN rows}
             first == CHOOSE t \in times : \A u \in times : t <= u
             last == CHOOSE t \in times : \A u \in times : u <= t
         IN  times \cup {first - 1, last + 1}

\* a clock that shows one time at every insert: the rows tie, and a query
\* ordered by created_at may return them in any order
SameTime == {0}

\* Review(id, repository_id, commit_sha, pull_request_id, file_path, status,
\* created_at, completed_at).  created_by and completed_by are history: the
\* request that inserted the row and the requests whose commit set it to
\* "completed".
ReviewRow(id, repoId, sha, pr, path, now, r) ==
    [id |-> id, repository_id |-> repoId, commit_sha |-> sha, pull_request_id |-> pr,
     file_path |-> path, status |-> "pending", created_at |-> now, completed_at |-> None,
     created_by |-> r, completed_by |-> <<>>]

\* ReviewResult(review_id, agent_type, severity, issue_type, message,
\* line_number, suggestion, meta_data); written_by is history.
ReviewResultRow(reviewId, agent, issue, msg, meta, r) ==
    [review_id |-> reviewId, agent_type |-> agent, severity |-> issue.severity,
     issue_type |-> issue.issue_type, message |-> msg, line_number |-> issue.line_number,
     suggestion |-> issue.suggestion, meta_data |-> meta, written_by |-> r]

RECURSIVE MaxId(_)
MaxId(rows) ==
    IF rows = <<>> THEN 0
    ELSE LET m == MaxId(Tail(rows)) IN IF Head(rows).id > m THEN Head(rows).id ELSE m

\* The id the database gives a new row: the column is an Integer primary key on
\* SQLite (config/settings.py: database_url), i.e. the rowid, which is one more
\* than the largest id in the table and 1 when the table is empty.
NextId(rows) == MaxId(rows) + 1

\* .first(): None or the first row of a query result
First(hit) == IF hit = <<>> THEN None ELSE Some(hit[1])

\* url without its trailing slashes
RECURSIVE WithoutTrailingSlash(_)
WithoutTrailingSlash(url) ==
    IF url # <<>> /\ url[Len(url)] = "/"
    THEN WithoutTrailingSlash(SubSeq(url, 1, Len(url) - 1))
    ELSE url

\* A mutant of FirstWithUrl: the lookup ignores trailing slashes.
FirstWithUrlNormalised(rows, url) ==
    First(SelectSeq(rows, LAMBDA row : WithoutTrailingSlash(row.url) = WithoutTrailingSlash(url)))

\* db.query(Repository).filter(Repository.url == url).first()
FirstWithUrl(rows, url) == First(SelectSeq(rows, LAMBDA row : row.url = url))

\* db.query(Model).filter(Model.id == id).first()
FirstWithId(rows, id) == First(SelectSeq(rows, LAMBDA row : row.id = id))

-----------------------------------------------------------------------------
(* src/src/api/routes/reviews.py: create_review, content resolution *)

HTTP == <<"h", "t", "t", "p">>
DOT_PY == <<".", "p", "y">>

\* ReviewRequest
ReviewRequest(url, path, sha, pr, scan, ats) ==
    [repository_url |-> url, file_path |-> path, commit_sha |-> sha,
     pull_request_id |-> pr, scan_entire_repo |-> scan, agent_types |-> ats]

\* truth value and test of `request.pull_request_id and request.pull_request_id > 0`
PrUsable(pr) == pr # None /\ Val(pr) # 0 /\ Val(pr) > 0

\* truth value of `request.x and request.x.strip()`
NonBlank(o) == Truthy(o) /\ Strip(Val(o)) # <<>>

\* A mutant of SelectPath: file_path is looked at before scan_entire_repo.
SelectPathFileFirst(rq) ==
    IF Truthy(rq.file_path) /\ ~StartsWith(rq.repository_url, HTTP) THEN "local"
    ELSE IF rq.repository_url # <<>> /\ StartsWith(rq.repository_url, HTTP) THEN
        IF NonBlank(rq.file_path) THEN
            IF ~EndsWith(Strip(Val(rq.file_path)), DOT_PY) THEN "dir_scan" ELSE "hosted_file"
        ELSE IF rq.scan_entire_repo THEN "repo_scan"
        ELSE IF NonBlank(rq.commit_sha) THEN "commit"
        ELSE IF PrUsable(rq.pull_request_id) THEN "pr"
        ELSE "rejected"
    ELSE "rejected"

\* create_review, lines 80-429: the branch taken, from the if/elif chain
SelectPath(rq) ==
    IF Truthy(rq.file_path) /\ ~StartsWith(rq.repository_url, HTTP) THEN "local"
    ELSE IF rq.repository_url # <<>> /\ StartsWith(rq.repository_url, HTTP) THEN
        IF rq.scan_entire_repo THEN "repo_scan"
        ELSE IF NonBlank(rq.file_path) THEN
            IF ~EndsWith(Strip(Val(rq.file_path)), DOT_PY) THEN "dir_scan" ELSE "hosted_file"
        ELSE IF NonBlank(rq.commit_sha) THEN "commit"
        ELSE IF PrUsable(rq.pull_request_id) THEN "pr"
        ELSE "rejected"
    ELSE "rejected"

ScanPaths == {"repo_scan", "dir_scan"}
SinglePaths == {"local", "hosted_file", "commit", "pr"}

\* The function of the file system or of GitHubIntegration that each branch calls
FetchCall(path) ==
    CASE path = "local" -> <<"os.path.exists">>
      [] path = "repo_scan" -> <<"get_all_python_files">>
      [] path = "dir_scan" -> <<"get_python_files_in_directory">>
      [] path = "hosted_file" -> <<"get_file_content">>
      [] path = "commit" -> <<"get_commit_files">>
      [] path = "pr" -> <<"get_pull_request_files">>
      [] OTHER -> <<>>

\* What the environment answers to the one fetch of a request:
\*   kind "ok"               the call returns `files` (a list of {path, content};
\*                           for os.path.exists an empty list means "no such file",
\*                           for get_file_content the content of files[1], or ""),
\*   kind "value_error"      the call raises ValueError(msg),
\*   kind "error"            it raises an exception of any other class, whose
\*                           text str(e) is msg.
Fetch(kind, files) == [kind |-> kind, files |-> files, msg |-> <<>>]

\* the call raises: kind is "value_error" or "error", msg is str(e)
FetchRaises(kind, msg) == [kind |-> kind, files |-> <<>>, msg |-> msg]

\* create_review, line 414: "404" in error_msg or "Not Found" in error_msg
SaysNotFound(error_msg) ==
    \/ Contains(error_msg, <<"4", "0", "4">>)
    \/ Contains(error_msg, <<"N", "o", "t", " ", "F", "o", "u", "n", "d">>)

File(path, content) == [path |-> path, content |-> content]

\* create_review, lines 107 and 254
max_files == 50

\* A mutant of CapFiles: every file found is kept.
CapFilesNone(fs) == fs

\* create_review, lines 109-111 and 256-258: all_files[:max_files]
CapFiles(fs) == IF Len(fs) > max_files THEN SubSeq(fs, 1, max_files) ELSE fs

\* f-strings of lines 118-121 and 265-268 (the text stored on the Review row)
FilePathDisplay(path, dir, nProcessed, nFound) ==
    IF path = "repo_scan"
    THEN (IF nFound > max_files
          THEN <<"Repository scan (", ToString(max_files), "/", ToString(nFound), " files)">>
          ELSE <<"Repository scan (", ToString(nProcessed), " files)">>)
    ELSE (IF nFound > max_files
          THEN <<"Directory scan: ">> \o dir
               \o <<" (", ToString(max_files), "/", ToString(nFound), " files processed)">>
          ELSE <<"Directory scan: ">> \o dir \o <<" (", ToString(nProcessed), " files)">>)

\* f-strings of lines 215-218 (repository scan) and the value kept from lines
\* 265-268 (directory scan): the file_path of the response
FilePathResponse(path, dir, nProcessed, nFound) ==
    IF path = "repo_scan"
    THEN (IF nFound > max_files
          THEN <<"Repository scan (", ToString(max_files), "/", ToString(nFound),
                 " files processed)">>
          ELSE <<"Repository scan (", ToString(nProcessed), " files)">>)
    ELSE FilePathDisplay(path, dir, nProcessed, nFound)

\* The outcome of content resolution (lines 78-433, up to the creation of the
\* Review row): status 0 means that content was resolved, any other status is
\* that of the HTTPException raised.  files are the files to review, file_path
\* the path (or display text) stored on the Review row.
Resolution(rq, path, env) ==
    LET fail(code) == [status |-> code, files |-> <<>>, file_path |-> <<>>, found |-> 0]
        ok(fs, fp, n) == [status |-> 0, files |-> fs, file_path |-> fp, found |-> n]
        raised == env.kind # "ok"
        stripped == Strip(Val(rq.file_path))
        capped == CapFiles(env.files)
    IN  CASE path = "local" ->
                IF raised THEN fail(400)
                ELSE IF env.files = <<>> THEN fail(400)
                ELSE ok(<<File(Val(rq.file_path), env.files[1].content)>>, Val(rq.file_path), 1)
          [] path = "repo_scan" ->
                IF raised THEN fail(400)
                ELSE IF env.files = <<>> THEN fail(404)
                ELSE ok(capped, FilePathDisplay(path, <<>>, Len(capped), Len(env.files)),
                        Len(env.files))
          [] path = "dir_scan" ->
                IF env.kind = "value_error" THEN fail(404)
                ELSE IF raised THEN fail(400)
                ELSE IF env.files = <<>> THEN fail(404)
                ELSE ok(capped, FilePathDisplay(path, stripped, Len(capped), Len(env.files)),
                        Len(env.files))
          [] path = "hosted_file" ->
                IF env.kind = "value_error" THEN fail(404)
                ELSE IF raised THEN fail(400)
                ELSE IF env.files = <<>> \/ Strip(env.files[1].content) = <<>> THEN fail(404)
                ELSE ok(<<File(stripped, env.files[1].content)>>, stripped, 1)
          [] path = "commit" ->
                IF raised THEN fail(400)
                ELSE IF env.files = <<>> THEN fail(404)
                ELSE ok(<<env.files[1]>>, env.files[1].path, 1)
          [] path = "pr" ->
                IF raised /\ SaysNotFound(env.msg) THEN fail(404)
                ELSE IF raised THEN fail(400)
                ELSE IF env.files = <<>> THEN fail(404)
                ELSE ok(<<env.files[1]>>, env.files[1].path, 1)
          [] OTHER -> fail(400)

-----------------------------------------------------------------------------
(* src/src/api/routes/reviews.py: create_review, saving and aggregating *)

\* f"[{file_path}]"
PathTag(p) == <<"[">> \o p \o <<"]">>

\* A mutant of PrefixMessage: the tag is added whatever the message starts with.
PrefixMessageAlways(msg, p) == PathTag(p) \o <<" ">> \o msg

\* lines 154-156 and 456-458
PrefixMessage(msg, p) == IF StartsWith(msg, PathTag(p)) THEN msg ELSE PathTag(p) \o <<" ">> \o msg

\* lines 159-160 and 460-461
StampMetadata(meta, p) == {kv \in meta : kv[1] # "file_path"} \cup {<<"file_path", p>>}

\* lines 162-169: the issue with its path
IssueWithPath(issue, p) ==
    [issue EXCEPT !.message = PrefixMessage(issue.message, p),
                  !.metadata = StampMetadata(issue.metadata, p)]

\* the ReviewResult rows added to the session for one AgentResult (lines 172-182)
RowsOfResult(result, reviewId, p, r) ==
    [k \in DOMAIN result.issues |->
        ReviewResultRow(reviewId, result.agent_type, result.issues[k],
                        PrefixMessage(result.issues[k].message, p),
                        StampMetadata(result.issues[k].metadata, p), r)]

RECURSIVE RowsOfResults(_, _, _, _)
RowsOfResults(rs, reviewId, p, r) ==
    IF rs = <<>> THEN <<>>
    ELSE RowsOfResult(Head(rs), reviewId, p, r) \o RowsOfResults(Tail(rs), reviewId, p, r)

\* agent_results_dict: entries in insertion order
AggEntry(agent) == [agent_type |-> agent, issues |-> <<>>, total_time |-> 0, success |-> TRUE]

AggHas(dict, agent) == \E k \in DOMAIN dict : dict[k].agent_type = agent

\* lines 186-196, executed once per issue
AggAddIssue(dict, result, issue, p) ==
    LET d1 == IF AggHas(dict, result.agent_type) THEN dict
              ELSE Append(dict, AggEntry(result.agent_type))
    IN  [k \in DOMAIN d1 |->
            IF d1[k].agent_type = result.agent_type
            THEN [d1[k] EXCEPT !.issues = Append(@, IssueWithPath(issue, p)),
                               !.total_time = @ + result.execution_time,
                               !.success = IF ~result.success THEN FALSE ELSE @]
            ELSE d1[k]]

\* lines 151-196: the loop over result.issues
RECURSIVE AggAddIssues(_, _, _, _)
AggAddIssues(dict, result, issues, p) ==
    IF issues = <<>> THEN dict
    ELSE AggAddIssues(AggAddIssue(dict, result, Head(issues), p), result, Tail(issues), p)

\* lines 149-196: the loop over file_results
RECURSIVE AggAddResults(_, _, _)
AggAddResults(dict, rs, p) ==
    IF rs = <<>> THEN dict
    ELSE AggAddResults(AggAddIssues(dict, Head(rs), Head(rs).issues, p), Tail(rs), p)

\* lines 199-207: the merged AgentResult list of the response
MergedResults(dict) ==
    [k \in DOMAIN dict |->
        AgentResult(dict[k].agent_type, dict[k].success, dict[k].total_time,
                    dict[k].issues, None, None)]

\* lines 453-478: the single-file response keeps the orchestrator's results,
\* each issue updated in place with its path
ResultsWithPath(rs, p) ==
    [k \in DOMAIN rs |->
        [rs[k] EXCEPT !.issues = [n \in DOMAIN rs[k].issues |-> IssueWithPath(rs[k].issues[n], p)]]]

CountIssues(rs) == SumSeq([k \in DOMAIN rs |-> Len(rs[k].issues)])

\* `request.agent_types or None` (lines 145, 292, 448)
AgentTypesOrNone(at) == IF Truthy(at) THEN at ELSE None

\* the number of coroutines review_code builds for a request
NumTasks(at) == Len(BuildTasks(DefaultAgentTypes(AgentTypesOrNone(at))))

-----------------------------------------------------------------------------
(* Responses *)

NoResponse == [route |-> "none", status_code |-> 0]

\* HTTPException(status_code=code)
ErrorResponse(route, code) == [route |-> route, status_code |-> code]

\* ReviewResponse
ReviewResponse(route, id, url, path, status, rs, total, completed) ==
    [route |-> route, status_code |-> 200, review_id |-> id, repository_url |-> url,
     file_path |-> path, status |-> status, results |-> rs, total_issues |-> total,
     completed_at |-> completed]

-----------------------------------------------------------------------------
(* create_review as steps: it runs without interruption from one await to the *)
(* next; the only await is that of orchestrator.review_code.                  *)

\* longest list of create_review requests in the concurrent specification
MaxRequests == 2

\* The state of one create_review request.  history and analysed record the
\* calls of orchestrator.review_code: analysed[i] is the file path passed to the
\* i-th call, history[i] what the i-th call returned.  calls is the fetch
\* function the handler called and fetched what that call answered.
NewRequest ==
    [pc |-> "new", request |-> ReviewRequest(<<>>, None, None, None, FALSE, None),
     path |-> "none", calls |-> <<>>, fetched |-> Fetch("none", <<>>),
     review_id |-> 0, file_path |-> <<>>,
     files |-> <<>>, found |-> 0, idx |-> 0, pending |-> <<>>, dict |-> <<>>,
     total_issues |-> 0, history |-> <<>>, analysed |-> <<>>, response |-> NoResponse]

ApiInit ==
    /\ repositories = <<>>
    /\ reviews = <<>>
    /\ review_results = <<>>
    /\ reqs = [r \in 1..MaxRequests |-> NewRequest]
    /\ resp = NoResponse

\* A mutant of ReviewRowAdded: the Review row is committed before the content
\* is resolved.
ReviewRowAddedBeforeResolution(res) == TRUE

\* lines 122-131, 269-278 and 436-445: the Review row is added and committed
\* only once the content has been resolved; an HTTPException raised by content
\* resolution leaves the handler before these lines.
ReviewRowAdded(res) == res.status = 0

\* lines 44-146 (scan paths) or 44-449 (single-file paths): the handler from
\* its start to its first await, or to the HTTPException that ends it.  env
\* is what the fetch answers and now what the clock shows when the Review row
\* is inserted.
CreateReviewStart(r, rq, env, now) ==
    LET found == FirstWithUrl(repositories, rq.repository_url)
        repoId == IF found = None THEN NextId(repositories) ELSE Val(found).id
        path == SelectPath(rq)
        res == Resolution(rq, path, env)
        reviewId == NextId(reviews)
        answered == IF FetchCall(path) = <<>> THEN Fetch("none", <<>>) ELSE env
    IN  /\ reqs[r].pc = "new"
        /\ repositories' = IF found = None
                           THEN Append(repositories, RepositoryRow(repoId, rq.repository_url))
                           ELSE repositories
        /\ reviews' = IF ReviewRowAdded(res)
                      THEN Append(reviews,
                               ReviewRow(reviewId, repoId, rq.commit_sha, rq.pull_request_id,
                                         res.file_path, now, r))
                      ELSE reviews
        /\ IF res.status # 0
           THEN /\ reqs' = [reqs EXCEPT ![r] =
                        [@ EXCEPT !.pc = "done", !.request = rq, !.path = path,
                                  !.calls = FetchCall(path), !.fetched = answered,
                                  !.response = ErrorResponse("create", res.status)]]
                /\ resp' = ErrorResponse("create", res.status)
           ELSE /\ reqs' = [reqs EXCEPT ![r] =
                        [@ EXCEPT !.pc = "await", !.request = rq, !.path = path,
                                  !.calls = FetchCall(path), !.fetched = answered,
                                  !.review_id = reviewId,
                                  !.file_path = res.file_path, !.files = res.files,
                                  !.found = res.found, !.idx = 1,
                                  !.analysed = <<res.files[1].path>>]]
                /\ resp' = NoResponse
        /\ UNCHANGED review_results
        /\ UNCHANGED <<orchVars, toolVars, otherVars>>

\* A mutant of UpdateMatchesRow: the commit goes through whether or not the
\* Review row still exists.
UpdateMatchesRowAlways(rows, id) == TRUE

\* lines 210-212, 357-359 and 481-483: the commit flushes
\* UPDATE reviews SET status, completed_at WHERE id = :id; the ORM raises
\* StaleDataError unless the statement matches a row.
UpdateMatchesRow(rows, id) == \E k \in DOMAIN rows : rows[k].id = id

\* lines 146-229, 293-370 or 449-494: orchestrator.review_code returns for the
\* file awaited (outs[i] is what task i did) and the handler runs on to its
\* next await or to its end.  The commit of the last step flushes an UPDATE of
\* the Review row by primary key, then the INSERTs of the ReviewResult rows;
\* an UPDATE that matches no row raises (sqlalchemy StaleDataError) and nothing
\* is committed.
CreateReviewResume(r, outs) ==
    LET q == reqs[r]
        file == q.files[q.idx]
        isScan == q.path \in ScanPaths
        p == IF isScan THEN file.path ELSE q.file_path
        file_results == ReviewCode(AgentTypesOrNone(q.request.agent_types), outs)
        pending == q.pending \o RowsOfResults(file_results, q.review_id, p, r)
        dict == AggAddResults(q.dict, file_results, p)
        total == q.total_issues + CountIssues(file_results)
        hist == Append(q.history, file_results)
        last == q.idx = Len(q.files)
        rowExists == UpdateMatchesRow(reviews, q.review_id)
        answer == ReviewResponse("create", q.review_id, q.request.repository_url,
                      IF isScan
                      THEN FilePathResponse(q.path, Strip(Val(q.request.file_path)),
                                            Len(q.files), q.found)
                      ELSE q.file_path,
                      "completed",
                      IF isScan THEN MergedResults(dict) ELSE ResultsWithPath(file_results, p),
                      total, Some("utcnow"))
        failure == ErrorResponse("create", IF isScan THEN 400 ELSE 500)
    IN  /\ q.pc = "await"
        /\ IF ~last
           THEN /\ reqs' = [reqs EXCEPT ![r] =
                        [@ EXCEPT !.idx = @ + 1, !.pending = pending, !.dict = dict,
                                  !.total_issues = total, !.history = hist,
                                  !.analysed = Append(@, q.files[q.idx + 1].path)]]
                /\ resp' = NoResponse
                /\ UNCHANGED <<reviews, review_results>>
           ELSE IF ~rowExists
           THEN /\ reqs' = [reqs EXCEPT ![r] =
                        [@ EXCEPT !.pc = "done", !.pending = <<>>, !.dict = dict,
                                  !.total_issues = total, !.history = hist,
                                  !.response = failure]]
                /\ resp' = failure
                /\ UNCHANGED <<reviews, review_results>>
           ELSE /\ reviews' = [k \in DOMAIN reviews |->
                        IF reviews[k].id = q.review_id
                        THEN [reviews[k] EXCEPT !.status = "completed",
                                                !.completed_at = Some("utcnow"),
                                                !.completed_by = Append(@, r)]
                        ELSE reviews[k]]
                /\ review_results' = review_results \o pending
                /\ reqs' = [reqs EXCEPT ![r] =
                        [@ EXCEPT !.pc = "done", !.pending = <<>>, !.dict = dict,
                                  !.total_issues = total, !.history = hist,
                                  !.response = answer]]
                /\ resp' = answer
        /\ UNCHANGED repositories
        /\ UNCHANGED <<orchVars, toolVars, otherVars>>

-----------------------------------------------------------------------------
(* get_reviews, get_review, clear_all_reviews: no await, one step each *)

\* lines 527-550 and 589-612: the rows of a review grouped by agent_type, the
\* groups in the order in which their first row was read
RECURSIVE GroupByAgent(_, _)
GroupByAgent(rows, acc) ==
    IF rows = <<>> THEN acc
    ELSE LET row == Head(rows)
             issue == Issue(row.severity, row.issue_type, row.message, row.line_number,
                            row.suggestion, row.meta_data)
             acc1 == IF \E k \in DOMAIN acc : acc[k].agent_type = row.agent_type THEN acc
                     ELSE Append(acc, AgentResult(row.agent_type, TRUE, 0, <<>>, None, None))
         IN  GroupByAgent(Tail(rows),
                [k \in DOMAIN acc1 |->
                    IF acc1[k].agent_type = row.agent_type
                    THEN [acc1[k] EXCEPT !.issues = Append(@, issue)]
                    ELSE acc1[k]])

\* lines 586-625 (and 524-565): the ReviewResponse built from the stored rows
StoredResponse(route, review) ==
    LET db_results == SelectSeq(review_results, LAMBDA row : row.review_id = review.id)
        repo == FirstWithId(repositories, review.repository_id)
    IN  ReviewResponse(route, review.id, IF repo = None THEN <<>> ELSE Val(repo).url,
                       review.file_path, review.status, GroupByAgent(db_results, <<>>),
                       Len(db_results), review.completed_at)

\* get_review, lines 581-625
GetReview(id) ==
    LET review == FirstWithId(reviews, id)
    IN  /\ resp' = IF review = None THEN ErrorResponse("get", 404)
                   ELSE StoredResponse("get", Val(review))
        /\ UNCHANGED <<repositories, reviews, review_results, reqs>>
        /\ UNCHANGED <<orchVars, toolVars, otherVars>>

\* line 519, order_by(Review.created_at.desc()): the orders the query may
\* return the rows in, a row of a later created_at before one of an earlier;
\* the order of rows with equal created_at is the database's choice
NewestFirst(rows) ==
    LET n == Len(rows)
        ordered == {s \in [1..n -> 1..n] :
                        /\ \A i, j \in 1..n : i # j => s[i] # s[j]
                        /\ \A i \in 1..(n - 1) :
                                rows[s[i]].created_at >= rows[s[i + 1]].created_at}
    IN  {[i \in 1..n |-> rows[s[i]]] : s \in ordered}

\* get_reviews, lines 519-567: the rows in the order newestFirst, then OFFSET
\* and LIMIT as SQLite applies them: a negative OFFSET skips nothing, a
\* negative LIMIT is no limit
ListResponse(newestFirst, limit, offset) ==
    LET skipped == IF offset < 0 THEN 0 ELSE offset
        rows == SubSeq(newestFirst, skipped + 1,
                       IF limit >= 0 /\ skipped + limit < Len(newestFirst)
                       THEN skipped + limit
                       ELSE Len(newestFirst))
    IN  [route |-> "list", status_code |-> 200,
         items |-> [k \in DOMAIN rows |-> StoredResponse("list", rows[k])]]

GetReviews(limit, offset) ==
        /\ \E newestFirst \in NewestFirst(reviews) :
                resp' = ListResponse(newestFirst, limit, offset)
        /\ UNCHANGED <<repositories, reviews, review_results, reqs>>
        /\ UNCHANGED <<orchVars, toolVars, otherVars>>

\* Python floats (IEEE 754 binary64), for the non-negative values of
\* get_analytics.  A float is [m, e]: m the binary digits of its significand,
\* most significant first, at most 53 of them and the first one 1 (none for
\* 0.0), and e the exponent of the last digit; its value is m x 2^e.
Float(m, e) == [m |-> m, e |-> e]

\* sys.float_info.mant_dig
SignificandBits == 53

\* the binary digits of the natural number n, none for 0
RECURSIVE BitsOf(_)
BitsOf(n) == IF n = 0 THEN <<>> ELSE Append(BitsOf(n \div 2), n % 2)

\* the natural number of the binary digits
RECURSIVE NatOf(_)
NatOf(bits) ==
    IF bits = <<>> THEN 0 ELSE 2 * NatOf(SubSeq(bits, 1, Len(bits) - 1)) + bits[Len(bits)]

\* the binary digits of bits + 1: the last 0 becomes 1, the 1s after it 0
Increment(bits) ==
    LET zeros == {i \in DOMAIN bits : bits[i] = 0}
        last == CHOOSE i \in zeros : \A j \in zeros : j <= i
    IN  IF zeros = {} THEN <<1>> \o [i \in DOMAIN bits |-> 0]
        ELSE [i \in DOMAIN bits |-> IF i < last THEN bits[i] ELSE IF i = last THEN 1 ELSE 0]

\* bits with zeros in front, n digits in all
Padded(bits, n) == [i \in 1..(n - Len(bits)) |-> 0] \o bits

\* the binary digits of bits x k + carry, for a small natural number k, the
\* first digit of bits being 1; computed eight digits at a time
RECURSIVE TimesBits(_, _, _)
TimesBits(bits, k, carry) ==
    IF bits = <<>> THEN BitsOf(carry)
    ELSE LET n == IF Len(bits) < 8 THEN Len(bits) ELSE 8
             t == NatOf(SubSeq(bits, Len(bits) - n + 1, Len(bits))) * k + carry
         IN  TimesBits(SubSeq(bits, 1, Len(bits) - n), k, t \div 2^n)
                \o Padded(BitsOf(t % 2^n), n)

\* some digit of bits from position `from` on is 1
AnyBitFrom(bits, from) == \E i \in from..Len(bits) : bits[i] = 1

\* round to nearest, ties to even: the float nearest to bits x 2^e (plus
\* something smaller than 2^e when `sticky`), the first digit of bits being 1
NearestFloat(bits, e, sticky) ==
    IF Len(bits) <= SignificandBits THEN Float(bits, e)
    ELSE LET kept == SubSeq(bits, 1, SignificandBits)
             up == /\ bits[SignificandBits + 1] = 1
                   /\ \/ AnyBitFrom(bits, SignificandBits + 2)
                      \/ sticky
                      \/ kept[SignificandBits] = 1
             e1 == e + (Len(bits) - SignificandBits)
             m == IF up THEN Increment(kept) ELSE kept
         IN  IF Len(m) > SignificandBits
             THEN Float(SubSeq(m, 1, SignificandBits), e1 + 1)
             ELSE Float(m, e1)

\* the long division by b has found the digits q.bits, the last of them of
\* exponent q.e, and has the remainder q.r left: it ends when the quotient is
\* exact or has two digits more than a significand
QuotientEnds(q) == q.r = 0 \/ Len(q.bits) >= SignificandBits + 2

\* the next digit of the long division
QuotientStep(q, b) ==
    IF QuotientEnds(q) THEN q
    ELSE LET digit == (2 * q.r) \div b
         IN  [bits |-> IF q.bits = <<>> /\ digit = 0 THEN <<>> ELSE Append(q.bits, digit),
              e |-> q.e - 1,
              r |-> (2 * q.r) % b]

RECURSIVE QuotientBits(_, _)
QuotientBits(q, b) ==
    IF QuotientEnds(q) THEN q
    ELSE QuotientBits(QuotientStep(QuotientStep(QuotientStep(QuotientStep(q, b), b), b), b), b)

\* a / b for ints a >= 0 and b > 0 (below 2^30): the float nearest to the
\* quotient
TrueDiv(a, b) ==
    LET q == QuotientBits([bits |-> BitsOf(a \div b), e |-> 0, r |-> a % b], b)
    IN  NearestFloat(q.bits, q.e, q.r # 0)

\* x * k for a float x and a small int k > 0: the float nearest to the product
FloatTimes(x, k) == NearestFloat(TimesBits(x.m, k, 0), x.e, FALSE)

\* the digits of x x 100 before and after the binary point
Hundredths(x) ==
    LET bits == TimesBits(x.m, 100, 0)
        whole == Len(bits) + x.e
    IN  IF x.e >= 0 THEN [whole |-> bits \o [i \in 1..x.e |-> 0], part |-> <<>>]
        ELSE IF whole > 0
             THEN [whole |-> SubSeq(bits, 1, whole), part |-> SubSeq(bits, whole + 1, Len(bits))]
        ELSE [whole |-> <<>>, part |-> [i \in 1..(0 - whole) |-> 0] \o bits]

\* A mutant of Round2: the digits after the second decimal are cut off.
Round2Down(x) == NatOf(Hundredths(x).whole)

\* round(x, 2) for a float x >= 0, in hundredths: the decimal of two places
\* nearest to the value of the float, an exact tie going to the even one
Round2(x) ==
    LET h == Hundredths(x)
        whole == NatOf(h.whole)
        up == /\ h.part # <<>>
              /\ h.part[1] = 1
              /\ (AnyBitFrom(h.part, 2) \/ whole % 2 = 1)
    IN  IF up THEN whole + 1 ELSE whole

\* the sum of the values of a dictionary
RECURSIVE SumValues(_)
SumValues(d) ==
    IF DOMAIN d = {} THEN 0
    ELSE LET key == CHOOSE k \in DOMAIN d : TRUE
         IN  d[key] + SumValues([k \in DOMAIN d \ {key} |-> d[k]])

\* SELECT key, count(id) ... GROUP BY key, as the dictionary {key: count}
CountBy(rows, field) ==
    [key \in {rows[k][field] : k \in DOMAIN rows} |->
        Cardinality({k \in DOMAIN rows : rows[k][field] = key})]

\* lines 675-678: reviews per Repository.url over the join of the two tables
ReviewsPerUrl ==
    [url \in {repositories[n].url : n \in {m \in DOMAIN repositories :
                    \E j \in DOMAIN reviews : reviews[j].repository_id = repositories[m].id}} |->
        Cardinality({<<n, j>> \in (DOMAIN repositories) \X (DOMAIN reviews) :
                        /\ repositories[n].url = url
                        /\ reviews[j].repository_id = repositories[n].id})]

\* lines 675-680: the groups ordered by count, largest first, at most ten of
\* them; the order of groups with equal counts is the database's choice
RepoStats ==
    LET counts == ReviewsPerUrl
        n == Cardinality(DOMAIN counts)
        ordered == {s \in [1..n -> DOMAIN counts] :
                        /\ \A i, j \in 1..n : i # j => s[i] # s[j]
                        /\ \A i \in 1..(n - 1) : counts[s[i]] >= counts[s[i + 1]]}
    IN  {[i \in 1..(IF n < 10 THEN n ELSE 10) |-> [url |-> s[i], count |-> counts[s[i]]]] :
            s \in ordered}

\* get_analytics, lines 638-697.  success_rate and avg_issues_per_review are
\* in hundredths.  created_at says how the times of the rows compare, not how
\* long ago they are: any number of the reviews may be older than seven days.
AnalyticsAnswered ==
    LET total_reviews == Len(reviews)
        total_issues == Len(review_results)
        completed_reviews == Len(SelectSeq(reviews, LAMBDA row : row.status = "completed"))
        issue_counts == CountBy(review_results, "review_id")
    IN  /\ \E repo_stats \in RepoStats, recent_reviews \in 0..total_reviews :
            resp' = [route |-> "analytics", status_code |-> 200,
                     total_reviews |-> total_reviews,
                     total_issues |-> total_issues,
                     completed_reviews |-> completed_reviews,
                     success_rate |->
                            IF total_reviews > 0
                            THEN Round2(FloatTimes(TrueDiv(completed_reviews, total_reviews),
                                                   100))
                            ELSE 0,
                     avg_issues_per_review |->
                            IF DOMAIN issue_counts # {}
                            THEN Round2(TrueDiv(SumValues(issue_counts),
                                                Cardinality(DOMAIN issue_counts)))
                            ELSE 0,
                     severity_stats |-> CountBy(review_results, "severity"),
                     agent_stats |-> CountBy(review_results, "agent_type"),
                     repo_stats |-> repo_stats,
                     recent_reviews |-> recent_reviews]
        /\ UNCHANGED <<repositories, reviews, review_results, reqs>>

GetAnalytics == AnalyticsAnswered /\ UNCHANGED <<orchVars, toolVars, otherVars>>

\* create_review has returned its response or raised its HTTPException: the
\* call is over, and the next request is served by a new call
HandlerReturns(r) ==
    /\ reqs[r].pc = "done"
    /\ reqs' = [reqs EXCEPT ![r] = NewRequest]
    /\ UNCHANGED <<repositories, reviews, review_results, resp>>
    /\ UNCHANGED <<orchVars, toolVars, otherVars>>

\* A mutant of ClearStatements: the reviews are deleted first.
ClearStatementsReviewsFirst == <<"reviews", "review_results">>

\* clear_all_reviews, lines 712 and 715: the tables emptied, in statement order
ClearStatements == <<"review_results", "reviews">>

\* db.query(Model).delete() on a database [reviews, review_results]
DeleteFrom(db, table) == [db EXCEPT ![table] = <<>>]

\* review_results.review_id is a foreign key to reviews.id (models.py)
ForeignKeysHold(db) ==
    \A k \in DOMAIN db.review_results :
        \E j \in DOMAIN db.reviews : db.reviews[j].id = db.review_results[k].review_id

\* clear_all_reviews, lines 710-727.  Each delete() returns the number of rows
\* it removed.  fk_held is history: whether the foreign key held between the
\* two statements.
ClearAllCommitted ==
    LET db0 == [reviews |-> reviews, review_results |-> review_results]
        db1 == DeleteFrom(db0, ClearStatements[1])
        db2 == DeleteFrom(db1, ClearStatements[2])
        removed(table) == IF ClearStatements[1] = table THEN Len(db0[table])
                          ELSE Len(db1[table])
    IN  /\ review_results' = db2.review_results
        /\ reviews' = db2.reviews
        /\ resp' = [route |-> "clear", status_code |-> 200,
                    deleted_reviews |-> removed("reviews"),
                    deleted_results |-> removed("review_results"),
                    fk_held |-> ForeignKeysHold(db1)]
        /\ UNCHANGED <<repositories, reqs>>

\* how the database takes the statements of clear_all_reviews: "ok", or
\* "error" when a statement or the commit raises
ClearOutcomes == {"ok", "error"}

\* clear_all_reviews, lines 709-731: the try block committed, or the except
\* branch (rollback, HTTPException 500) that leaves the tables as they were
ClearAllAnswered(outcome) ==
    IF outcome = "ok" THEN ClearAllCommitted
    ELSE /\ resp' = ErrorResponse("clear", 500)
         /\ UNCHANGED <<repositories, reviews, review_results, reqs>>

\* DELETE /reviews sent by a client other than the dashboard
ClearAllReviews(outcome) ==
    /\ ClearAllAnswered(outcome)
    /\ UNCHANGED <<orchVars, toolVars, otherVars>>

-----------------------------------------------------------------------------
(* The dashboard (dashboard/main.py): one browser session.  Streamlit runs   *)
(* the script from the top at every interaction; st.session_state is what    *)
(* survives from one run to the next.                                         *)

NEW_REVIEW == "New Review"
REVIEW_HISTORY == "Review History"
ANALYTICS == "Analytics"

\* line 26: the choices of the sidebar selectbox
Pages == {NEW_REVIEW, REVIEW_HISTORY, ANALYTICS}

\* most clicks on Clear All History in one session
MaxClicks == 3

\* the keys main.py stores in st.session_state; None is an absent key
EmptySessionState ==
    [confirm_clear |-> None, last_review |-> None, selected_review_id |-> None]

\* A mutant of Armed: an absent flag counts as armed.
ArmedWhenAbsent(ss) == IF ss.confirm_clear = None THEN TRUE ELSE Val(ss.confirm_clear)

\* lines 281 and 301: st.session_state.get("confirm_clear", False)
Armed(ss) == IF ss.confirm_clear = None THEN FALSE ELSE Val(ss.confirm_clear)

\* lines 31-68: the values of the form's widgets
Form(url, path, sha, pr, scan, ats) ==
    [repo_url |-> url, file_path |-> path, commit_sha |-> sha, pr_id |-> pr,
     scan_entire_repo |-> scan, agent_types |-> ats]

\* lines 94-110: the JSON payload; a key left out is None (False for the
\* checkbox) in the ReviewRequest the API parses
Payload(form) ==
    ReviewRequest(form.repo_url,
                  IF ~form.scan_entire_repo /\ form.file_path # <<>>
                  THEN Some(form.file_path) ELSE None,
                  IF form.commit_sha # <<>> THEN Some(form.commit_sha) ELSE None,
                  IF form.pr_id # 0 /\ form.pr_id > 0 THEN Some(form.pr_id) ELSE None,
                  form.scan_entire_repo,
                  IF form.agent_types # <<>> THEN Some(form.agent_types) ELSE None)

DashInit ==
    /\ page = NEW_REVIEW
    /\ session_state = EmptySessionState
    /\ d_pc = "idle"
    /\ d_req = 0
    /\ d_payload = Payload(Form(<<>>, <<>>, <<>>, 0, FALSE, <<>>))
    /\ d_log = <<>>
    /\ d_answer = None
    /\ d_click = None
    /\ d_seen = <<>>

\* line 26: another page is chosen in the sidebar and the script runs for it:
\* Review History and Analytics start with a GET (lines 306 and 363)
SelectPage(p) ==
    /\ d_pc = "idle"
    /\ p # page
    /\ page' = p
    /\ d_pc' = IF p = REVIEW_HISTORY THEN "listing"
               ELSE IF p = ANALYTICS THEN "analytics" ELSE "idle"
    /\ d_answer' = None
    /\ d_click' = None
    /\ d_seen' = <<>>
    /\ UNCHANGED <<session_state, d_req, d_payload, d_log>>
    /\ UNCHANGED <<orchVars, apiVars, toolVars, libVars>>

\* lines 72-113: Start Review is pressed with a repository URL; the script
\* blocks in requests.post until create_review request r has answered
SubmitReview(r, form) ==
    /\ d_pc = "idle"
    /\ page = NEW_REVIEW
    /\ form.repo_url # <<>>
    /\ reqs[r].pc = "new"
    /\ d_pc' = "posting"
    /\ d_req' = r
    /\ d_payload' = Payload(form)
    /\ UNCHANGED <<page, session_state, d_log, d_answer, d_click, d_seen>>
    /\ UNCHANGED <<orchVars, apiVars, toolVars, libVars>>

\* the API takes up the POST of the dashboard
ServeSubmit(env, now) ==
    /\ d_pc = "posting"
    /\ CreateReviewStart(d_req, d_payload, env, now)

\* lines 115-121: the response has arrived
SubmitReturn ==
    /\ d_pc = "posting"
    /\ reqs[d_req].pc = "done"
    /\ session_state' = IF reqs[d_req].response.status_code = 200
                        THEN [session_state EXCEPT !.last_review = Some(reqs[d_req].response)]
                        ELSE session_state
    /\ d_pc' = "idle"
    /\ UNCHANGED <<page, d_req, d_payload, d_log, d_answer, d_click, d_seen>>
    /\ UNCHANGED <<orchVars, apiVars, toolVars, libVars>>

\* lines 123-124: requests.post raises (the timeout of line 113 has passed, or
\* the connection failed); the API may still be serving the request
SubmitRaises ==
    /\ d_pc = "posting"
    /\ d_pc' = "idle"
    /\ UNCHANGED <<page, session_state, d_req, d_payload, d_log, d_answer, d_click, d_seen>>
    /\ UNCHANGED <<orchVars, apiVars, toolVars, libVars>>

\* entries of d_log
Click(armed) == [event |-> "click", armed |-> armed, status_code |-> 0, had_last_review |-> FALSE]
Delete(code, had) == [event |-> "delete", armed |-> TRUE, status_code |-> code, had_last_review |-> had]

\* lines 280-284 and 295-298: a click on Clear All History.  With the flag
\* armed the script sends DELETE /reviews and waits for the answer; otherwise
\* it arms the flag and reruns, which lists the reviews again (line 306).
ClickClear ==
    /\ d_pc = "idle"
    /\ page = REVIEW_HISTORY
    /\ Len(SelectSeq(d_log, LAMBDA e : e.event = "click")) < MaxClicks
    /\ IF Armed(session_state)
       THEN /\ d_pc' = "deleting"
            /\ d_log' = Append(d_log, Click(TRUE))
            /\ UNCHANGED session_state
       ELSE /\ d_pc' = "listing"
            /\ session_state' = [session_state EXCEPT !.confirm_clear = Some(TRUE)]
            /\ d_log' = Append(d_log, Click(FALSE))
    /\ d_answer' = None
    /\ d_click' = None
    /\ UNCHANGED <<page, d_req, d_payload, d_seen>>
    /\ UNCHANGED <<orchVars, apiVars, toolVars, libVars>>

\* the API serves the DELETE of the dashboard
ServeClear(outcome) ==
    /\ d_pc = "deleting"
    /\ d_answer = None
    /\ ClearAllAnswered(outcome)
    /\ d_answer' = Some(resp'.status_code)
    /\ UNCHANGED <<page, session_state, d_pc, d_req, d_payload, d_log, d_click, d_seen>>
    /\ UNCHANGED <<orchVars, toolVars, libVars>>

\* lines 285-292: the answer of the DELETE has arrived.  After a 200 the flag
\* is disarmed, last_review is removed and the script reruns; after any other
\* status the script goes on.  Either way it lists the reviews next (line 306).
ClearReturn ==
    /\ d_pc = "deleting"
    /\ d_answer # None
    /\ session_state' = IF Val(d_answer) = 200
                        THEN [session_state EXCEPT !.confirm_clear = Some(FALSE),
                                                   !.last_review = None]
                        ELSE session_state
    /\ d_log' = Append(d_log, Delete(Val(d_answer), session_state.last_review # None))
    /\ d_pc' = "listing"
    /\ d_answer' = None
    /\ UNCHANGED <<page, d_req, d_payload, d_click, d_seen>>
    /\ UNCHANGED <<orchVars, apiVars, toolVars, libVars>>

\* lines 293-294: requests.delete raises, before the API has served the DELETE
\* or after; the script goes on to line 306
ClearRaises ==
    /\ d_pc = "deleting"
    /\ d_log' = Append(d_log, Delete(0, session_state.last_review # None))
    /\ d_pc' = "listing"
    /\ d_answer' = None
    /\ UNCHANGED <<page, session_state, d_req, d_payload, d_click, d_seen>>
    /\ UNCHANGED <<orchVars, apiVars, toolVars, libVars>>

\* line 346: View Details is pressed on the k-th review shown; the script runs
\* again from the top and lists the reviews (line 306) before it comes to the
\* button
ViewDetails(k) ==
    /\ d_pc = "idle"
    /\ page = REVIEW_HISTORY
    /\ k \in DOMAIN d_seen
    /\ d_pc' = "listing"
    /\ d_click' = Some(d_seen[k].review_id)
    /\ d_answer' = None
    /\ UNCHANGED <<page, session_state, d_req, d_payload, d_log, d_seen>>
    /\ UNCHANGED <<orchVars, apiVars, toolVars, libVars>>

\* the API serves GET /reviews?limit=50 of the dashboard
ServeList ==
    /\ d_pc = "listing"
    /\ d_answer = None
    /\ \E newestFirst \in NewestFirst(reviews) : resp' = ListResponse(newestFirst, 50, 0)
    /\ d_answer' = Some(resp'.items)
    /\ UNCHANGED <<repositories, reviews, review_results, reqs>>
    /\ UNCHANGED <<page, session_state, d_pc, d_req, d_payload, d_log, d_click, d_seen>>
    /\ UNCHANGED <<orchVars, toolVars, libVars>>

\* lines 308-349: the list has arrived and is shown.  If View Details was
\* pressed and the review is still listed, its entry is stored and the script
\* reruns, which lists the reviews once more.
ListReturn ==
    LET shown == Val(d_answer)
        hit == SelectSeq(shown, LAMBDA review : d_click = Some(review.review_id))
    IN  /\ d_pc = "listing"
        /\ d_answer # None
        /\ d_seen' = shown
        /\ IF hit # <<>>
           THEN /\ session_state' = [session_state EXCEPT
                                        !.selected_review_id = Some(hit[1].review_id),
                                        !.last_review = Some(hit[1])]
                /\ d_pc' = "listing"
           ELSE /\ UNCHANGED session_state
                /\ d_pc' = "idle"
        /\ d_click' = None
        /\ d_answer' = None
        /\ UNCHANGED <<page, d_req, d_payload, d_log>>
        /\ UNCHANGED <<orchVars, apiVars, toolVars, libVars>>

\* lines 355-356: requests.get raises; nothing is listed
ListRaises ==
    /\ d_pc = "listing"
    /\ d_pc' = "idle"
    /\ d_seen' = <<>>
    /\ d_click' = None
    /\ d_answer' = None
    /\ UNCHANGED <<page, session_state, d_req, d_payload, d_log>>
    /\ UNCHANGED <<orchVars, apiVars, toolVars, libVars>>

\* the API serves GET /analytics of the dashboard
ServeAnalytics ==
    /\ d_pc = "analytics"
    /\ d_answer = None
    /\ AnalyticsAnswered
    /\ d_answer' = Some(resp'.status_code)
    /\ UNCHANGED <<page, session_state, d_pc, d_req, d_payload, d_log, d_click, d_seen>>
    /\ UNCHANGED <<orchVars, toolVars, libVars>>

\* lines 365 onwards: the analytics are shown, or requests.get raised; the
\* page stores nothing
AnalyticsReturn ==
    /\ d_pc = "analytics"
    /\ d_pc' = "idle"
    /\ d_answer' = None
    /\ UNCHANGED <<page, session_state, d_req, d_payload, d_log, d_click, d_seen>>
    /\ UNCHANGED <<orchVars, apiVars, toolVars, libVars>>

-----------------------------------------------------------------------------
(* Inputs of the route specifications *)

LOCAL_URL == <<"l">>
HOSTED_URL == HTTP \o <<":", "a">>
A_PY == <<"a">> \o DOT_PY

Content == <<"x">>

\* SpecRoute: one request drawn from every combination of the selectors
RouteRequests ==
    {ReviewRequest(url, path, sha, pr, scan, Some(<<QUALITY>>)) :
        url \in {<<>>, LOCAL_URL, HOSTED_URL},
        path \in {None, Some(<<>>), Some(<<" ">>), Some(<<"d">>), Some(A_PY),
                  Some(<<" ">> \o A_PY \o <<" ">>)},
        sha \in {None, Some(<<>>), Some(<<" ">>), Some(<<"c">>)},
        pr \in {None, Some(0), Some(1), Some(-1)},
        scan \in BOOLEAN}

\* texts of the exceptions a fetch raises: one that says neither "404" nor
\* "Not Found", and one for each of the two
RouteErrorTexts ==
    {<<"b", "o", "o", "m">>, <<"4", "0", "4", " ", "g", "o", "n", "e">>,
     <<"N", "o", "t", " ", "F", "o", "u", "n", "d">>}

\* GET /reviews: limit and offset are any integers the client sends
ListLimits == {-1, 1, 50}
ListOffsets == {-1, 0, 1}

RouteFetches ==
    {Fetch("ok", fs) : fs \in {<<>>, <<File(<<"f", "1">>, Content)>>,
                               <<File(<<"f", "1">>, <<" ">>)>>,
                               <<File(<<"f", "1">>, Content), File(<<"f", "2">>, Content)>>}}
    \cup {FetchRaises(k, msg) : k \in {"value_error", "error"}, msg \in RouteErrorTexts}

\* issues whose message already starts with the tag of a file, and one that
\* does not
RouteIssuePlain == Issue("low", "C0114", <<"m">>, Some(1), None, {})
RouteIssueTaggedF1 ==
    Issue("high", "B101", <<"[", "f", "1", "]", " ", "n">>, None, Some("fix"),
          {<<"file_path", <<"z">>>>, <<"tool", <<"b">>>>})
RouteIssueTaggedAPy ==
    Issue("medium", "W1", <<"[">> \o A_PY \o <<"]", "k">>, Some(2), None, {})

RouteOutcomes ==
    OutcomeSet({<<>>, <<RouteIssuePlain>>,
                <<RouteIssuePlain, RouteIssueTaggedF1, RouteIssueTaggedAPy>>}, {}, {1})

\* SpecScan: most files a scan finds
MaxScanFiles == 2

ScanFile(i) == File(<<"f", ToString(i)>>, Content)

ScanFetches == {Fetch("ok", [i \in 1..n |-> ScanFile(i)]) : n \in 0..MaxScanFiles}

ScanRequests ==
    {ReviewRequest(HOSTED_URL, path, None, None, path = None, ats) :
        path \in {None, Some(<<"d">>)},
        ats \in {Some(<<QUALITY, SECURITY>>), Some(<<SECURITY>>)}}

ScanIssueA == Issue("low", "C0114", <<"m">>, Some(1), None, {})
ScanIssueB == Issue("high", "B101", <<"[", "f", "1", "]", " ", "n">>, None, Some("fix"),
                    {<<"file_path", <<"z">>>>})

ScanOutcomes ==
    {Outcome("return", <<>>, "", 1), Outcome("return", <<ScanIssueA>>, "", 1),
     Outcome("return", <<ScanIssueA, ScanIssueB>>, "", 2), Outcome("raise", <<>>, "boom", 1)}

\* SpecCap: scans of repositories and directories larger than max_files.
\* MaxFound is the largest number of files a fetch returns.
MaxFound == 52

CapFetches == {Fetch("ok", [i \in 1..n |-> ScanFile(i)]) : n \in {0, 1, 2, 49, 50, 51, MaxFound}}

CapRequests ==
    {ReviewRequest(HOSTED_URL, path, None, None, path = None, Some(<<SECURITY>>)) :
        path \in {None, Some(<<"d">>)}}

CapOutcomes == {Outcome("return", <<ScanIssueA>>, "", 1)}

\* Spec: concurrent requests
ApiRequests ==
    {ReviewRequest(LOCAL_URL, Some(A_PY), None, None, FALSE, Some(<<QUALITY>>)),
     ReviewRequest(HOSTED_URL, None, None, None, TRUE, Some(<<QUALITY>>)),
     ReviewRequest(HOSTED_URL, None, None, None, FALSE, None)}

ApiFetches ==
    {Fetch("ok", [i \in 1..n |-> ScanFile(i)]) : n \in 0..2}
    \cup {Fetch(k, <<>>) : k \in {"value_error", "error"}}

ApiOutcomes ==
    {Outcome("return", <<>>, "", 1), Outcome("return", <<ScanIssueA>>, "", 1),
     Outcome("raise", <<>>, "boom", 1)}

\* the outcomes of the tasks of one review_code call of request r
Outs(r, outcomes) == [1..NumTasks(reqs[r].request.agent_types) -> outcomes]

-----------------------------------------------------------------------------
(* src/src/utils/static_analysis.py: run_pylint, run_flake8, run_bandit and   *)
(* run_radon.  The four wrappers have the same control flow:                  *)
(*     try:                                                                   *)
(*         with NamedTemporaryFile(mode="w", suffix=".py", delete=False) as f:*)
(*             f.write(code); temp_path = f.name                              *)
(*         try:     subprocess.run(..., timeout=30); parse stdout; return     *)
(*         finally: os.unlink(temp_path)                                      *)
(*     except subprocess.TimeoutExpired: return {success: False, "Timeout"}   *)
(*     except Exception as e:            return {success: False, str(e)}      *)
(* What the file system and the subprocess do is the environment's choice.    *)

Tools == {"pylint", "flake8", "bandit", "radon"}

\* the number of subprocess.run calls of a wrapper (radon: cc and mi)
RunsOf(tool) == IF tool = "radon" THEN 2 ELSE 1

\* an exception: kind "TimeoutExpired" or "Exception" (any other subclass of
\* Exception), msg its str()
Exc(kind, msg) == [kind |-> kind, msg |-> msg]

NoExc == Exc("none", "")

NoResult == [success |-> FALSE, error |-> "no result"]

\* What a subprocess prints: nothing, text the wrapper can parse, or text it
\* cannot parse (invalid JSON; for flake8 a line whose line or column is not a
\* number).
Stdouts == {"", "valid", "invalid"}

\* the dictionary of the except clauses (lines 48-53, 104-109, 151-156, 210-215)
Failure(tool, err) ==
    IF tool = "radon" THEN [success |-> FALSE, error |-> err]
    ELSE [success |-> FALSE, issues |-> <<>>, error |-> err]

\* the dictionary returned from the inner try (lines 38-42, 82-99, 138-146,
\* 192-205); parsed text is kept as the text itself
Success(tool, outs) ==
    CASE tool = "pylint" ->
            [success |-> TRUE, issues |-> IF outs[1] = "" THEN <<>> ELSE <<outs[1]>>,
             output |-> "stderr"]
      [] tool = "flake8" ->
            [success |-> TRUE, issues |-> IF outs[1] = "" THEN <<>> ELSE <<outs[1]>>,
             output |-> "stderr"]
      [] tool = "bandit" ->
            [success |-> TRUE, issues |-> IF outs[1] = "" THEN <<>> ELSE <<outs[1]>>,
             metrics |-> IF outs[1] = "" THEN <<>> ELSE <<outs[1]>>]
      [] OTHER ->
            [success |-> TRUE, complexity |-> IF outs[1] = "" THEN <<>> ELSE <<outs[1]>>,
             maintainability |-> IF outs[2] = "" THEN <<>> ELSE <<outs[2]>>]

\* json.loads (int() for flake8) raises on one of the outputs that are parsed;
\* an empty stdout is not parsed (`if result.stdout:`)
ParseRaises(outs) == \E i \in DOMAIN outs : outs[i] = "invalid"

\* A mutant of ToolCatches: only the timeout is caught.
ToolCatchesTimeoutOnly(exc) == exc.kind = "TimeoutExpired"

\* `except subprocess.TimeoutExpired` followed by `except Exception`: every
\* exception derived from Exception is caught
ToolCatches(exc) == exc.kind \in {"TimeoutExpired", "Exception"}

\* the except clauses: the dictionary returned for a caught exception
ToolExcept(tool, exc) ==
    IF exc.kind = "TimeoutExpired" THEN Failure(tool, "Timeout")
    ELSE Failure(tool, exc.msg)

ToolInit ==
    /\ t_pc = "idle"
    /\ t_tool = ""
    /\ t_code = <<>>
    /\ t_temp = "none"
    /\ t_stdout = <<>>
    /\ t_exc = NoExc
    /\ t_result = NoResult

\* the wrapper is called
ToolCall(tool, code) ==
    /\ t_pc = "idle"
    /\ t_pc' = "create"
    /\ t_tool' = tool
    /\ t_code' = code
    /\ UNCHANGED <<t_temp, t_stdout, t_exc, t_result>>
    /\ UNCHANGED <<orchVars, apiVars, otherVars>>

\* Exception exc leaves the outer try block: an except clause returns, or the
\* exception reaches the caller.
ToolLeave(exc) ==
    /\ t_exc' = exc
    /\ IF ToolCatches(exc)
       THEN t_pc' = "returned" /\ t_result' = ToolExcept(t_tool, exc)
       ELSE t_pc' = "raised" /\ UNCHANGED t_result

\* line 24: tempfile.NamedTemporaryFile(..., delete=False) creates the file,
\* or raises
ToolCreate(exc) ==
    /\ t_pc = "create"
    /\ IF exc = NoExc
       THEN /\ t_temp' = "exists"
            /\ t_pc' = "write"
            /\ UNCHANGED <<t_exc, t_result>>
       ELSE /\ ToolLeave(exc)
            /\ UNCHANGED t_temp
    /\ UNCHANGED <<t_tool, t_code, t_stdout>>
    /\ UNCHANGED <<orchVars, apiVars, otherVars>>

\* lines 25-26: f.write(code), temp_path = f.name and the close of the with
\* block.  When the write or the close raises, the with block closes the file
\* (delete=False: the file stays) and the exception leaves the outer try; the
\* inner try, whose finally unlinks the file, has not been entered.
ToolWrite(exc) ==
    /\ t_pc = "write"
    /\ IF exc = NoExc
       THEN /\ t_pc' = "run"
            /\ UNCHANGED <<t_exc, t_result>>
       ELSE ToolLeave(exc)
    /\ UNCHANGED <<t_tool, t_code, t_temp, t_stdout>>
    /\ UNCHANGED <<orchVars, apiVars, otherVars>>

\* lines 30-35 (177-190 for radon): one subprocess.run inside the inner try.
\* It completes with stdout out, or raises exc (TimeoutExpired after 30 s, or
\* another exception such as FileNotFoundError); an exception runs the finally
\* clause (os.unlink) and leaves the outer try.
ToolRun(out, exc) ==
    /\ t_pc = "run"
    /\ IF exc = NoExc
       THEN /\ t_stdout' = Append(t_stdout, out)
            /\ t_pc' = IF Len(t_stdout') = RunsOf(t_tool) THEN "parse" ELSE "run"
            /\ UNCHANGED <<t_temp, t_exc, t_result>>
       ELSE /\ t_temp' = "unlinked"
            /\ ToolLeave(exc)
            /\ UNCHANGED t_stdout
    /\ UNCHANGED <<t_tool, t_code>>
    /\ UNCHANGED <<orchVars, apiVars, otherVars>>

\* lines 37-46: the output is parsed and the dictionary returned, or the parse
\* raises; either way the finally clause unlinks the file.
ToolParse ==
    /\ t_pc = "parse"
    /\ t_temp' = "unlinked"
    /\ IF ParseRaises(t_stdout)
       THEN ToolLeave(Exc("Exception", "parse error"))
       ELSE /\ t_pc' = "returned"
            /\ t_result' = Success(t_tool, t_stdout)
            /\ UNCHANGED t_exc
    /\ UNCHANGED <<t_tool, t_code, t_stdout>>
    /\ UNCHANGED <<orchVars, apiVars, otherVars>>

\* the exceptions the environment raises at a step
ToolExcs == {Exc("TimeoutExpired", "timed out"), Exc("Exception", "boom"), Exc("Exception", "")}

NextTool ==
    \/ \E tool \in Tools, code \in {<<>>, Content} : ToolCall(tool, code)
    \/ \E exc \in {NoExc, Exc("Exception", "boom")} : ToolCreate(exc)
    \/ \E exc \in {NoExc, Exc("Exception", "boom")} : ToolWrite(exc)
    \/ \E out \in Stdouts, exc \in {NoExc} \cup ToolExcs : ToolRun(out, exc)
    \/ ToolParse

-----------------------------------------------------------------------------
(* src/src/integrations/github.py: GitHubIntegration.get_file_content.  A str *)
(* is a sequence of characters, bytes a sequence of 0..255, and decoded text  *)
(* a sequence of code points.                                                 *)

\* s.replace(old, "")
RECURSIVE ReplaceWithEmpty(_, _)
ReplaceWithEmpty(s, old) ==
    IF s = <<>> THEN <<>>
    ELSE IF StartsWith(s, old) THEN ReplaceWithEmpty(SubSeq(s, Len(old) + 1, Len(s)), old)
    ELSE <<Head(s)>> \o ReplaceWithEmpty(Tail(s), old)

\* s.split(sep) for a separator of one character
RECURSIVE Split(_, _)
Split(s, sep) ==
    IF \A i \in DOMAIN s : s[i] # sep THEN <<s>>
    ELSE LET i == CHOOSE j \in DOMAIN s : s[j] = sep /\ \A k \in 1..(j - 1) : s[k] # sep
         IN  <<SubSeq(s, 1, i - 1)>> \o Split(SubSeq(s, i + 1, Len(s)), sep)

GITHUB_COM == <<"g", "i", "t", "h", "u", "b", ".", "c", "o", "m">>
HTTPS_GITHUB == <<"h", "t", "t", "p", "s", ":", "/", "/", "g", "i", "t", "h", "u", "b", ".", "c", "o", "m", "/">>
HTTP_GITHUB == <<"h", "t", "t", "p", ":", "/", "/", "g", "i", "t", "h", "u", "b", ".", "c", "o", "m", "/">>
DOT_GIT == <<".", "g", "i", "t">>

\* an exception: its class and str(e)
Raised(type, msg) == [kind |-> "raise", type |-> type, msg |-> msg]
Returned(value) == [kind |-> "return", value |-> value]

\* the classes that `except ValueError` catches
ValueErrors == {"ValueError", "UnicodeDecodeError", "binascii.Error"}

\* get_repository, lines 39-54, with the client configured: the owner/repo
\* path handed to github.get_repo, or the ValueError of line 50
RepoPath(repo_url) ==
    IF Contains(repo_url, GITHUB_COM)
    THEN LET parts == Split(ReplaceWithEmpty(ReplaceWithEmpty(repo_url, HTTPS_GITHUB),
                                             HTTP_GITHUB), "/")
         IN  IF Len(parts) >= 2
             THEN Returned(parts[1] \o <<"/">> \o ReplaceWithEmpty(parts[2], DOT_GIT))
             ELSE Raised("ValueError", <<"invalid_url">>)
    ELSE Returned(repo_url)

\* get_repository, lines 39-54: get_repo is what the client does with the path
GetRepository(token, repo_url, get_repo) ==
    IF ~token THEN Raised("ValueError", <<"token">>)
    ELSE IF RepoPath(repo_url).kind = "raise" THEN RepoPath(repo_url)
    ELSE get_repo

\* bytes.decode("utf-8"): the code points, or the failure of the strict decoder
RECURSIVE Utf8Decode(_)
Utf8Decode(b) ==
    LET cont(i) == i <= Len(b) /\ b[i] >= 128 /\ b[i] <= 191
        rest(n, cp) == LET r == Utf8Decode(SubSeq(b, n + 1, Len(b)))
                       IN  IF r.ok THEN [ok |-> TRUE, text |-> <<cp>> \o r.text] ELSE r
        bad == [ok |-> FALSE, text |-> <<>>]
    IN  IF b = <<>> THEN [ok |-> TRUE, text |-> <<>>]
        ELSE IF b[1] < 128 THEN rest(1, b[1])
        ELSE IF b[1] >= 194 /\ b[1] <= 223
             THEN IF cont(2) THEN rest(2, (b[1] - 192) * 64 + (b[2] - 128)) ELSE bad
        ELSE IF b[1] >= 224 /\ b[1] <= 239
             THEN IF /\ cont(2) /\ cont(3)
                     /\ (b[1] = 224 => b[2] >= 160)
                     /\ (b[1] = 237 => b[2] <= 159)
                  THEN rest(3, (b[1] - 224) * 4096 + (b[2] - 128) * 64 + (b[3] - 128))
                  ELSE bad
        ELSE IF b[1] >= 240 /\ b[1] <= 244
             THEN IF /\ cont(2) /\ cont(3) /\ cont(4)
                     /\ (b[1] = 240 => b[2] >= 144)
                     /\ (b[1] = 244 => b[2] <= 143)
                  THEN rest(4, (b[1] - 240) * 262144 + (b[2] - 128) * 4096
                                    + (b[3] - 128) * 64 + (b[4] - 128))
                  ELSE bad
        ELSE bad

\* the code points str.strip() removes
UnicodeSpace ==
    {9, 10, 11, 12, 13, 28, 29, 30, 31, 32, 133, 160, 5760, 8232, 8233, 8239, 8287, 12288}
        \cup (8192..8202)

\* `not content or not content.strip()`
Blank(text) == \A i \in DOMAIN text : text[i] \in UnicodeSpace

\* the base64 alphabet, the character of value v at position v + 1
B64Alphabet == <<"A", "B", "C", "D", "E", "F", "G", "H", "I", "J", "K", "L", "M", "N", "O", "P",
                "Q", "R", "S", "T", "U", "V", "W", "X", "Y", "Z", "a", "b", "c", "d", "e", "f",
                "g", "h", "i", "j", "k", "l", "m", "n", "o", "p", "q", "r", "s", "t", "u", "v",
                "w", "x", "y", "z", "0", "1", "2", "3", "4", "5", "6", "7", "8", "9", "+", "/">>

\* a character of a str is an ASCII character: a string of one character,
\* the others being written as their code point ("U+00E9")
IsAscii(c) == Len(c) = 1

\* binascii.a2b_base64 without strict mode, reading s from its first
\* character with quad_pos characters of the current group consumed, leftchar
\* the bits left over from them and pads the run of "=" just read.  A str
\* with a character that is not ASCII is refused before any of it is read
\* ("string argument should contain only ASCII characters"); ASCII characters
\* outside the alphabet are skipped, complete padding ends the data, and data
\* that end within a group are refused ("Incorrect padding").
RECURSIVE A2bBase64(_, _, _, _)
A2bBase64(s, quad_pos, leftchar, pads) ==
    LET done(error, out) == [ok |-> error = "", error |-> error, bytes |-> out]
        more(q, l, p, out) ==
            LET r == A2bBase64(Tail(s), q, l, p)
            IN  IF r.ok THEN done("", out \o r.bytes) ELSE r
        v == (CHOOSE k \in DOMAIN B64Alphabet : B64Alphabet[k] = Head(s)) - 1
    IN  IF \E i \in DOMAIN s : ~IsAscii(s[i]) THEN done("ascii", <<>>)
        ELSE IF s = <<>> THEN done(IF quad_pos = 0 THEN "" ELSE "padding", <<>>)
        ELSE IF Head(s) = "="
             THEN IF quad_pos >= 2 /\ quad_pos + pads + 1 >= 4
                  THEN done("", <<>>)
                  ELSE more(quad_pos, leftchar, IF quad_pos >= 2 THEN pads + 1 ELSE pads, <<>>)
        ELSE IF \A k \in DOMAIN B64Alphabet : B64Alphabet[k] # Head(s)
             THEN more(quad_pos, leftchar, pads, <<>>)
        ELSE CASE quad_pos = 0 -> more(1, v, 0, <<>>)
               [] quad_pos = 1 -> more(2, v % 16, 0, <<leftchar * 4 + v \div 16>>)
               [] quad_pos = 2 -> more(3, v % 4, 0, <<leftchar * 16 + v \div 4>>)
               [] quad_pos = 3 -> more(0, 0, 0, <<leftchar * 64 + v>>)

\* base64.b64decode(s) for a str s: the bytes, the ValueError for a character
\* that is not ASCII, or binascii.Error, which is a ValueError too
B64Decode(s) ==
    LET r == A2bBase64(s, 0, 0, 0)
    IN  IF r.ok THEN Returned(r.bytes)
        ELSE IF r.error = "ascii" THEN Raised("ValueError", <<"ascii">>)
        ELSE Raised("binascii.Error", <<"padding">>)

\* an attribute of the object get_contents returned: missing (hasattr is
\* False), None, or a value
Missing == [attr |-> "missing", value |-> <<>>, error |-> <<>>]
NoneAttr == [attr |-> "none", value |-> <<>>, error |-> <<>>]
Attr(value) == [attr |-> "value", value |-> value, error |-> <<>>]

\* an attribute whose property raises, as ContentFile.decoded_content does by
\* its assert when the encoding is not base64
AttrRaises(msg) == [attr |-> "raises", value |-> <<>>, error |-> msg]

\* `hasattr(file_content, name) and file_content.name`
Populated(a) == a.attr = "value" /\ a.value # <<>>

\* ContentFile as far as lines 90-95 read it
ContentFile(decoded_content, content) ==
    [shape |-> "file", decoded_content |-> decoded_content, content |-> content]

\* what repo.get_contents returned: a list, None or a ContentFile
ListOf(items) == [shape |-> "list", items |-> items]
NoneContent == [shape |-> "none"]

\* lines 112-125: what the handlers of the try block make of an exception
Translate(e) ==
    IF e.type \in ValueErrors THEN e
    ELSE IF Contains(e.msg, <<"4", "0", "4">>) \/ Contains(e.msg, <<"N", "o", "t", " ", "F", "o", "u", "n", "d">>)
         THEN Raised("ValueError", <<"not_found">>)
    ELSE IF Contains(e.msg, <<"4", "0", "3">>) \/ Contains(e.msg, <<"F", "o", "r", "b", "i", "d", "d", "e", "n">>)
         THEN Raised("ValueError", <<"forbidden">>)
    ELSE Raised("ValueError", <<"generic">> \o e.msg)

\* lines 77-110: from the value get_contents returned to the return or raise
\* inside the try block
Extract(got) ==
    LET file_content == IF got.shape = "list" THEN got.items[1] ELSE got
        decoded == IF Populated(file_content.decoded_content)
                   THEN Returned(file_content.decoded_content.value)
                   ELSE B64Decode(file_content.content.value)
        text == Utf8Decode(decoded.value)
    IN  IF got.shape = "list" /\ got.items = <<>> THEN Raised("ValueError", <<"list_empty">>)
        ELSE IF file_content.shape = "none" THEN Raised("ValueError", <<"content_none">>)
        ELSE IF file_content.decoded_content.attr = "raises"
             THEN Raised("AssertionError", file_content.decoded_content.error)
        ELSE IF ~Populated(file_content.decoded_content) /\ ~Populated(file_content.content)
             THEN Raised("ValueError", <<"no_content">>)
        ELSE IF decoded.kind = "raise" THEN decoded
        ELSE IF ~text.ok THEN Raised("ValueError", <<"binary">>)
        ELSE IF Blank(text.text) THEN Raised("ValueError", <<"empty">>)
        ELSE Returned(text.text)

\* get_file_content, lines 66-125.  get_repo is what github.get_repo does and
\* get_contents what repo.get_contents does: each returns or raises.  The call
\* of get_repository (line 69) stands before the try block of line 70.
GetFileContent(token, repo_url, get_repo, get_contents) ==
    LET repo == GetRepository(token, repo_url, get_repo)
        inTry == IF get_contents.kind = "raise" THEN get_contents
                 ELSE Extract(get_contents.value)
    IN  IF ~token THEN Raised("ValueError", <<"token">>)
        ELSE IF repo.kind = "raise" THEN repo
        ELSE IF inTry.kind = "raise" THEN Translate(inTry)
        ELSE inTry

\* lines 72-75: the arguments of repo.get_contents; the ref is passed only if
\* it is truthy
GetContentsArgs(file_path, ref) == IF Truthy(ref) THEN <<file_path, Val(ref)>> ELSE <<file_path>>

\* one call of get_file_content
NoCall == [token |-> FALSE, repo_url |-> <<>>, file_path |-> <<>>, ref |-> None,
           get_repo |-> Returned(<<>>), get_contents |-> Returned(NoneContent)]

HubInit ==
    /\ g_pc = "idle"
    /\ g_in = NoCall
    /\ g_args = <<>>
    /\ g_result = Returned(<<>>)

\* get_file_content is called; `call` holds its arguments and what the client
\* will do
FileContentCall(call) ==
    /\ g_pc = "idle"
    /\ g_pc' = "called"
    /\ g_in' = call
    /\ UNCHANGED <<g_args, g_result>>
    /\ UNCHANGED notHub

\* get_file_content returns or raises
FileContentEnd ==
    LET result == GetFileContent(g_in.token, g_in.repo_url, g_in.get_repo, g_in.get_contents)
        resolved == GetRepository(g_in.token, g_in.repo_url, g_in.get_repo).kind = "return"
    IN  /\ g_pc = "called"
        /\ g_pc' = IF result.kind = "return" THEN "returned" ELSE "raised"
        /\ g_args' = IF g_in.token /\ resolved
                      THEN GetContentsArgs(g_in.file_path, g_in.ref) ELSE <<>>
        /\ g_result' = result
        /\ UNCHANGED g_in
        /\ UNCHANGED notHub

\* the calls of the specification: with and without token, three URLs, a
\* client that resolves the repository or fails, and every shape of answer
HubUrls == {<<"h", "t", "t", "p", "s", ":", "/", "/", "g", "i", "t", "h", "u", "b", ".", "c", "o", "m", "/", "o", "/", "r", ".", "g", "i", "t">>,
            <<"h", "t", "t", "p", "s", ":", "/", "/", "g", "i", "t", "h", "u", "b", ".", "c", "o", "m", "/", "o">>,
            <<"o", "/", "r">>}

HubMessages == {<<"4", "0", "4">>, <<"N", "o", "t", " ", "F", "o", "u", "n", "d">>, <<"4", "0", "3">>, <<"F", "o", "r", "b", "i", "d", "d", "e", "n">>, <<"x">>,
                <<"4", "0", "3", " ">> \o <<"N", "o", "t", " ", "F", "o", "u", "n", "d">>}

HubBytes == {<<>>, <<120>>, <<32, 10>>, <<194, 160>>, <<195, 169, 120>>, <<255, 254>>, <<194>>,
             <<226, 130, 172>>, <<237, 160, 128>>}

HubBase64 == {<<>>, <<"e", "A", "=", "=">>, <<"I", "A", "=", "=">>, <<"/", "w", "=", "=">>, <<"w", "q", "A", "=">>, <<"e", "A">>, <<"=">>, <<"e", "\n", "A", "=", "=">>, <<"e", "A", "=", "x", "=">>,
              <<"U+00E9", "e", "A", "=", "=">>, <<"e", "A", "=", "=", "U+2028">>, <<"e", "A", "U+00E9">>}

HubFiles ==
    {ContentFile(d, c) :
        d \in {Missing, NoneAttr, AttrRaises(<<"e">>)} \cup {Attr(b) : b \in HubBytes},
        c \in {Missing, NoneAttr} \cup {Attr(s) : s \in HubBase64}}

HubContents ==
    {Raised("GithubException", m) : m \in HubMessages}
        \cup {Raised("ValueError", <<"v">>)}
        \cup {Returned(ListOf(<<>>)), Returned(NoneContent)}
        \cup {Returned(ListOf(<<f>>)) : f \in {ContentFile(Attr(<<120>>), NoneAttr)}}
        \cup {Returned(f) : f \in HubFiles}

HubCalls ==
    {[token |-> TRUE, repo_url |-> url, file_path |-> A_PY, ref |-> None,
      get_repo |-> Returned(<<"repo">>), get_contents |-> c] :
        url \in HubUrls, c \in HubContents}
    \cup {[token |-> t, repo_url |-> url, file_path |-> A_PY, ref |-> ref,
           get_repo |-> r, get_contents |-> Returned(ContentFile(Attr(<<120>>), NoneAttr))] :
            t \in BOOLEAN, url \in HubUrls, ref \in {None, Some(<<>>), Some(<<"b">>)},
            r \in {Returned(<<"repo">>)} \cup {Raised("GithubException", m) : m \in HubMessages}}

NextHub ==
    \/ \E call \in HubCalls : FileContentCall(call)
    \/ FileContentEnd


-----------------------------------------------------------------------------
(* src/src/agents/performance_agent.py: PerformanceAgent._check_nested_loops, *)
(* one call, as the steps of its loop over the lines                          *)

\* sep.join(parts)
RECURSIVE Join(_, _)
Join(parts, sep) ==
    IF parts = <<>> THEN <<>>
    ELSE IF Len(parts) = 1 THEN parts[1]
    ELSE parts[1] \o <<sep>> \o Join(Tail(parts), sep)

FOR_ == <<"f", "o", "r", " ">>
WHILE_ == <<"w", "h", "i", "l", "e", " ">>
IF_ == <<"i", "f", " ">>
ELIF_ == <<"e", "l", "i", "f", " ">>
ELSE_COLON == <<"e", "l", "s", "e", ":">>
RETURN == <<"r", "e", "t", "u", "r", "n">>
BREAK == <<"b", "r", "e", "a", "k">>

\* A mutant of IsLoopLine: only for loops are counted.
IsLoopLineForOnly(stripped) == StartsWith(stripped, FOR_)

\* line 82: stripped.startswith(("for ", "while "))
IsLoopLine(stripped) == StartsWith(stripped, FOR_) \/ StartsWith(stripped, WHILE_)

\* line 87: stripped.startswith(("if ", "elif ", "else:"))
IsConditionLine(stripped) ==
    StartsWith(stripped, IF_) \/ StartsWith(stripped, ELIF_) \/ StartsWith(stripped, ELSE_COLON)

\* lines 90 and 92: a statement that is not a comment and starts with
\* "return" or "break"
IsExitLine(stripped) ==
    /\ stripped # <<>>
    /\ ~StartsWith(stripped, <<"#">>)
    /\ (StartsWith(stripped, RETURN) \/ StartsWith(stripped, BREAK))

\* lines 94-103: the issue of a nest of the given depth that starts at `line`
NestedLoopsIssue(depth, line) ==
    Issue("medium", "nested_loops",
          <<"Deeply nested loops detected (depth: ", ToString(depth), ")">>,
          Some(line), Some("optimize"), {<<"depth", depth>>})

PerfInit ==
    /\ p_pc = "idle"
    /\ p_code = <<>>
    /\ p_lines = <<>>
    /\ p_line_num = 0
    /\ p_loop_depth = 0
    /\ p_max_depth = 0
    /\ p_start_line = 0
    /\ p_issues = <<>>
    /\ p_reset = 0

\* lines 75-79: the call, up to the first iteration
CheckNestedLoopsCall(code) ==
    /\ p_pc = "idle"
    /\ p_pc' = "loop"
    /\ p_code' = code
    /\ p_lines' = Split(code, "\n")
    /\ UNCHANGED <<p_line_num, p_loop_depth, p_max_depth, p_start_line, p_issues, p_reset>>
    /\ UNCHANGED notPerf

\* lines 80-105: one iteration of the loop.  p_reset is history: the number
\* of the last line at which the counters were reset.
CheckNestedLoopsLine ==
    LET n == p_line_num + 1
        stripped == Strip(p_lines[n])
    IN  /\ p_pc = "loop"
        /\ n <= Len(p_lines)
        /\ p_line_num' = n
        /\ IF IsLoopLine(stripped)
           THEN /\ p_loop_depth' = p_loop_depth + 1
                /\ p_start_line' = IF p_loop_depth + 1 = 1 THEN n ELSE p_start_line
                /\ p_max_depth' = IF p_max_depth > p_loop_depth + 1 THEN p_max_depth
                                  ELSE p_loop_depth + 1
                /\ UNCHANGED <<p_issues, p_reset>>
           ELSE IF ~IsConditionLine(stripped) /\ IsExitLine(stripped) /\ p_loop_depth > 0
           THEN /\ p_issues' = IF p_max_depth >= 3
                               THEN Append(p_issues, NestedLoopsIssue(p_max_depth, p_start_line))
                               ELSE p_issues
                /\ p_loop_depth' = 0
                /\ p_max_depth' = 0
                /\ p_reset' = n
                /\ UNCHANGED p_start_line
           ELSE UNCHANGED <<p_loop_depth, p_max_depth, p_start_line, p_issues, p_reset>>
        /\ UNCHANGED <<p_pc, p_code, p_lines>>
        /\ UNCHANGED notPerf

\* line 107: the loop is over, the issues are returned
CheckNestedLoopsReturn ==
    /\ p_pc = "loop"
    /\ p_line_num = Len(p_lines)
    /\ p_pc' = "returned"
    /\ UNCHANGED <<p_code, p_lines, p_line_num, p_loop_depth, p_max_depth, p_start_line,
                   p_issues, p_reset>>
    /\ UNCHANGED notPerf

-----------------------------------------------------------------------------
(* src/src/integrations/github.py: GitHubIntegration.get_all_python_files,   *)
(* one call, as the steps of get_files_recursive: a stack of frames, each    *)
(* with the path it lists, the contents it got and the items already visited *)

\* line 238
skip_dirs == {<<".", "g", "i", "t">>,
              <<"_", "_", "p", "y", "c", "a", "c", "h", "e", "_", "_">>,
              <<".", "p", "y", "t", "e", "s", "t", "_", "c", "a", "c", "h", "e">>,
              <<"n", "o", "d", "e", "_", "m", "o", "d", "u", "l", "e", "s">>,
              <<".", "v", "e", "n", "v">>,
              <<"v", "e", "n", "v">>,
              <<".", "v", "s">>,
              <<".", "i", "d", "e", "a">>}

\* A mutant of SkipsDirectory: only the skip list is consulted.
SkipsListedOnly(name) == name \in skip_dirs

\* line 239, negated: the directory is not entered
SkipsDirectory(name) == name \in skip_dirs \/ StartsWith(name, <<".">>)

\* line 220: item.type == "file" and item.name.endswith(".py")
IsPythonFile(item) == item.type = "file" /\ EndsWith(item.name, DOT_PY)

\* an entry of a listing, with the attributes the walk reads
Item(type, name, path, size) == [type |-> type, name |-> name, path |-> path, size |-> size]

\* the path of an entry called `name` of the directory `path`
ChildPath(path, name) == IF path = <<>> THEN name ELSE path \o <<"/">> \o name

\* lines 210-217: a frame that has not yet listed its path, and the frame
\* after repo.get_contents returned; a ContentFile alone becomes a list of one
Entering(path) == [path |-> path, listed |-> FALSE, contents |-> <<>>, visited |-> 0]
Listed(path, got) ==
    [path |-> path, listed |-> TRUE,
     contents |-> IF got.shape = "list" THEN got.items ELSE <<got.item>>, visited |-> 0]

\* lines 227-231
FileRecord(item, content) == [path |-> item.path, content |-> content, size |-> item.size]

NoWalk == [token |-> FALSE, repo_url |-> <<>>, ref |-> None, get_repo |-> Returned(<<>>)]

WalkInit ==
    /\ w_pc = "idle"
    /\ w_in = NoWalk
    /\ w_stack = <<>>
    /\ w_files = <<>>
    /\ w_listings = <<>>
    /\ w_fetches = <<>>
    /\ w_result = Returned(<<>>)

\* lines 201-205 and 248: get_all_python_files is called; without a token or
\* with a repository that does not resolve it raises, otherwise
\* get_files_recursive("", ref) is entered
AllPythonFilesCall(call) ==
    LET repo == GetRepository(call.token, call.repo_url, call.get_repo)
    IN  /\ w_pc = "idle"
        /\ w_in' = call
        /\ IF repo.kind = "raise"
           THEN /\ w_pc' = "raised"
                /\ w_result' = repo
                /\ w_stack' = <<>>
           ELSE /\ w_pc' = "walking"
                /\ w_stack' = <<Entering(<<>>)>>
                /\ UNCHANGED w_result
        /\ UNCHANGED <<w_files, w_listings, w_fetches>>
        /\ UNCHANGED notWalk

\* lines 209-217 and 244-245: the innermost call lists its path; `answer` is
\* what repo.get_contents does.  An exception ends this call of
\* get_files_recursive, which returns normally.
ListDirectory(answer) ==
    LET top == w_stack[Len(w_stack)]
    IN  /\ w_pc = "walking"
        /\ w_stack # <<>>
        /\ ~top.listed
        /\ w_listings' = Append(w_listings,
                                [args |-> GetContentsArgs(top.path, w_in.ref), answer |-> answer])
        /\ w_stack' = IF answer.kind = "raise"
                       THEN SubSeq(w_stack, 1, Len(w_stack) - 1)
                       ELSE [w_stack EXCEPT ![Len(w_stack)] = Listed(top.path, answer.value)]
        /\ UNCHANGED <<w_pc, w_in, w_files, w_fetches, w_result>>
        /\ UNCHANGED notWalk

\* lines 223-226: the arguments of get_file_content; the ref is passed only
\* if it is truthy
FileContentArgs(repo_url, file_path, ref) ==
    IF Truthy(ref) THEN <<repo_url, file_path, Val(ref)>> ELSE <<repo_url, file_path>>

\* lines 219-243, one iteration: a ".py" file is fetched with get_file_content
\* and recorded unless the fetch raises; a directory that is not skipped is
\* entered; every other item is passed over.  get_repo and get_contents are
\* what the client does during the fetch.
VisitItem(get_repo, get_contents) ==
    LET top == w_stack[Len(w_stack)]
        item == top.contents[top.visited + 1]
        content == GetFileContent(w_in.token, w_in.repo_url, get_repo, get_contents)
        next == [w_stack EXCEPT ![Len(w_stack)].visited = @ + 1]
    IN  /\ w_pc = "walking"
        /\ w_stack # <<>>
        /\ top.listed
        /\ top.visited < Len(top.contents)
        /\ IF IsPythonFile(item)
           THEN /\ w_fetches' = Append(w_fetches,
                                       [args |-> FileContentArgs(w_in.repo_url, item.path, w_in.ref),
                                        result |-> content])
                /\ w_files' = IF content.kind = "return"
                               THEN Append(w_files, FileRecord(item, content.value))
                               ELSE w_files
                /\ w_stack' = next
           ELSE /\ UNCHANGED <<w_fetches, w_files>>
                /\ w_stack' = IF item.type = "dir" /\ ~SkipsDirectory(item.name)
                               THEN Append(next, Entering(item.path))
                               ELSE next
        /\ UNCHANGED <<w_pc, w_in, w_listings, w_result>>
        /\ UNCHANGED notWalk

\* the loop of line 219 is over: this call of get_files_recursive returns, and
\* after the outermost one get_all_python_files returns the files (line 251)
DirectoryDone ==
    LET top == w_stack[Len(w_stack)]
    IN  /\ w_pc = "walking"
        /\ IF w_stack = <<>>
           THEN /\ w_pc' = "returned"
                /\ w_result' = Returned(w_files)
                /\ UNCHANGED w_stack
           ELSE /\ top.listed
                /\ top.visited = Len(top.contents)
                /\ w_stack' = SubSeq(w_stack, 1, Len(w_stack) - 1)
                /\ UNCHANGED <<w_pc, w_result>>
        /\ UNCHANGED <<w_in, w_files, w_listings, w_fetches>>
        /\ UNCHANGED notWalk

-----------------------------------------------------------------------------
(* Specifications of the routes *)

InitApi == OrchInit /\ ApiInit /\ ToolInit /\ DashInit /\ HubInit /\ PerfInit /\ WalkInit

SpecHub == InitApi /\ [][NextHub]_vars

\* one call of a tool wrapper
SpecTool == InitApi /\ [][NextTool]_vars

\* one create_review request, every selector combination, and get_review
NextRoute ==
    \/ \E rq \in RouteRequests, env \in RouteFetches, now \in SameTime : CreateReviewStart(1, rq, env, now)
    \/ \E outs \in Outs(1, RouteOutcomes) : CreateReviewResume(1, outs)
    \/ \E id \in 1..2 : GetReview(id)

SpecRoute == InitApi /\ [][NextRoute]_vars

\* one whole-repository or directory scan
NextScan ==
    \/ \E rq \in ScanRequests, env \in ScanFetches, now \in SameTime : CreateReviewStart(1, rq, env, now)
    \/ \E outs \in Outs(1, ScanOutcomes) : CreateReviewResume(1, outs)
    \/ \E id \in 1..2 : GetReview(id)

SpecScan == InitApi /\ [][NextScan]_vars

\* one scan of a large repository or directory
NextCap ==
    \/ \E rq \in CapRequests, env \in CapFetches, now \in SameTime : CreateReviewStart(1, rq, env, now)
    \/ \E outs \in Outs(1, CapOutcomes) : CreateReviewResume(1, outs)

SpecCap == InitApi /\ [][NextCap]_vars

\* concurrent create, get, list and clear requests
Next ==
    \/ \E r \in 1..MaxRequests, rq \in ApiRequests, env \in ApiFetches, now \in Clock(reviews) :
            CreateReviewStart(r, rq, env, now)
    \/ \E r \in 1..MaxRequests : \E outs \in Outs(r, ApiOutcomes) : CreateReviewResume(r, outs)
    \/ \E id \in 1..MaxRequests : GetReview(id)
    \/ \E limit \in ListLimits, offset \in ListOffsets : GetReviews(limit, offset)
    \/ \E outcome \in ClearOutcomes : ClearAllReviews(outcome)

Spec == InitApi /\ [][Next]_vars

\* concurrent create, get, list and clear requests over few inputs: a local file, a
\* whole-repository scan and a request without selector; a fetch that finds no
\* file, one file, or fails; an agent that returns one issue
DbRequests ==
    {ReviewRequest(LOCAL_URL, Some(A_PY), None, None, FALSE, Some(<<QUALITY>>)),
     ReviewRequest(HOSTED_URL, None, None, None, TRUE, Some(<<QUALITY>>)),
     ReviewRequest(HOSTED_URL, None, None, None, FALSE, Some(<<QUALITY>>))}

DbFetches ==
    {Fetch("ok", [i \in 1..n |-> ScanFile(i)]) : n \in 0..1} \cup {Fetch("error", <<>>)}

DbOutcomes == {Outcome("return", <<ScanIssueA>>, "", 1)}

NextDb ==
    \/ \E r \in 1..MaxRequests, rq \in DbRequests, env \in DbFetches, now \in SameTime :
            CreateReviewStart(r, rq, env, now)
    \/ \E r \in 1..MaxRequests : \E outs \in Outs(r, DbOutcomes) : CreateReviewResume(r, outs)
    \/ \E id \in 1..MaxRequests : GetReview(id)
    \/ GetReviews(50, 0)
    \/ \E outcome \in ClearOutcomes : ClearAllReviews(outcome)

SpecDb == InitApi /\ [][NextDb]_vars

\* concurrent create and clear requests for one file of repositories whose
\* URLs differ in a trailing slash or in the case of a letter
RepoUrls == {HOSTED_URL, HOSTED_URL \o <<"/">>, <<"H">> \o Tail(HOSTED_URL)}

RepoRequests ==
    {ReviewRequest(url, Some(A_PY), None, None, FALSE, Some(<<QUALITY>>)) : url \in RepoUrls}

NextRepo ==
    \/ \E r \in 1..MaxRequests, rq \in RepoRequests, env \in DbFetches, now \in SameTime :
            CreateReviewStart(r, rq, env, now)
    \/ \E r \in 1..MaxRequests : \E outs \in Outs(r, DbOutcomes) : CreateReviewResume(r, outs)
    \/ \E outcome \in ClearOutcomes : ClearAllReviews(outcome)

SpecRepo == InitApi /\ [][NextRepo]_vars

\* the dashboard and the API that serves it: a whole-repository scan whose
\* file_path field is filled in too, and a form left empty
DashForms ==
    {Form(HOSTED_URL, A_PY, <<>>, 0, TRUE, <<QUALITY>>),
     Form(<<>>, <<>>, <<>>, 0, FALSE, <<>>)}

\* the number of reviews submitted in one session of the dashboard
MaxSubmits == 1

\* the fetch of the content finds one file or fails
DashFetches == {Fetch("ok", <<ScanFile(1)>>), Fetch("error", <<>>)}

NextDash ==
    \/ \E p \in Pages : SelectPage(p)
    \/ \E r \in 1..MaxRequests, form \in DashForms :
            /\ r <= MaxSubmits
            /\ \A earlier \in 1..(r - 1) : reqs[earlier].pc # "new"
            /\ SubmitReview(r, form)
    \/ \E env \in DashFetches, now \in SameTime : ServeSubmit(env, now)
    \/ \E r \in 1..MaxRequests : \E outs \in Outs(r, DbOutcomes) : CreateReviewResume(r, outs)
    \/ SubmitReturn
    \/ SubmitRaises
    \/ ClickClear
    \/ \E outcome \in ClearOutcomes : ServeClear(outcome)
    \/ ClearReturn
    \/ ClearRaises
    \/ \E k \in 1..MaxRequests : ViewDetails(k)
    \/ ServeList
    \/ ListReturn
    \/ ListRaises
    \/ ServeAnalytics
    \/ AnalyticsReturn

SpecDash == InitApi /\ [][NextDash]_vars

\* no create_review request is waiting for the orchestrator
NoneAwaiting == \A r \in DOMAIN reqs : reqs[r].pc # "await"

\* the analytics route over databases of up to MaxReviews reviews, built by
\* requests for a file in which two agents find two issues each; a request starts when
\* none is waiting for the orchestrator, the other routes are served any time
MaxReviews == 3

StatsRequests ==
    {ReviewRequest(url, Some(A_PY), None, None, FALSE, Some(<<QUALITY, SECURITY>>)) :
        url \in {LOCAL_URL}}

StatsFetches == {Fetch("ok", <<ScanFile(1)>>)}

StatsOutcomes == {Outcome("return", <<ScanIssueA, ScanIssueB>>, "", 1)}

NextStats ==
    \/ \E r \in 1..MaxRequests, rq \in StatsRequests, env \in StatsFetches, now \in SameTime :
            NoneAwaiting /\ Len(reviews) < MaxReviews /\ CreateReviewStart(r, rq, env, now)
    \/ \E r \in 1..MaxRequests : \E outs \in Outs(r, StatsOutcomes) : CreateReviewResume(r, outs)
    \/ \E r \in 1..MaxRequests : HandlerReturns(r)
    \/ GetAnalytics
    \/ \E outcome \in ClearOutcomes : ClearAllReviews(outcome)

SpecStats == InitApi /\ [][NextStats]_vars

\* the same requests served one at a time: none starts while another awaits
NextSeq ==
    \/ \E r \in 1..MaxRequests, rq \in ApiRequests, env \in ApiFetches, now \in Clock(reviews) :
            NoneAwaiting /\ CreateReviewStart(r, rq, env, now)
    \/ \E r \in 1..MaxRequests : \E outs \in Outs(r, ApiOutcomes) : CreateReviewResume(r, outs)
    \/ \E id \in 1..MaxRequests : NoneAwaiting /\ GetReview(id)
    \/ \E limit \in ListLimits, offset \in ListOffsets : NoneAwaiting /\ GetReviews(limit, offset)
    \/ \E outcome \in ClearOutcomes : NoneAwaiting /\ ClearAllReviews(outcome)

SpecSeq == InitApi /\ [][NextSeq]_vars

-----------------------------------------------------------------------------
(* Bounds and input sets of the orchestrator specification *)

\* longest agent_types list passed to review_code
MaxAgentTypes == 2

RECURSIVE SeqsUpTo(_, _)
SeqsUpTo(S, n) ==
    IF n = 0 THEN {<<>>}
    ELSE LET shorter == SeqsUpTo(S, n - 1)
         IN  shorter \cup {Append(s, x) : s \in shorter, x \in S}

OrchArgs == {None} \cup {Some(l) : l \in SeqsUpTo(AgentType, MaxAgentTypes)}

IssueA == Issue("low", "C0114", <<"m">>, Some(1), None, {})
IssueB == Issue("high", "B101", <<"n">>, None, Some("fix"), {})

OrchOutcomes == OutcomeSet({<<>>, <<IssueA>>, <<IssueA, IssueB>>}, {"boom", ""}, {1})

-----------------------------------------------------------------------------
(* One call of AgentOrchestrator.review_code, as steps of the event loop *)

\* review_code, lines 51-62: default the list, build the coroutines, hand them
\* to asyncio.gather and suspend on it.
ReviewCodeCall(at) ==
    /\ o_pc = "idle"
    /\ o_arg' = at
    /\ agent_types' = DefaultAgentTypes(at)
    /\ tasks' = BuildTasks(agent_types')
    /\ task_state' = [i \in DOMAIN tasks' |-> "ready"]
    /\ task_outcome' = [i \in DOMAIN tasks' |-> NoOutcome]
    /\ results' = [i \in DOMAIN tasks' |-> EmptySlot]
    /\ finished' = <<>>
    /\ agent_results' = <<>>
    /\ events' = <<>>
    /\ o_pc' = "gather"
    /\ UNCHANGED <<apiVars, toolVars, otherVars>>

\* Task i ends with outcome out: gather records what the coroutine ended with.
\* Without return_exceptions the first exception propagates to review_code's
\* caller.
TaskFinish(i, out) ==
    LET e == TaskEnd(tasks[i], out)
    IN  /\ task_state' = [task_state EXCEPT ![i] = "done"]
        /\ task_outcome' = [task_outcome EXCEPT ![i] = out]
        /\ finished' = Append(finished, i)
        /\ IF e.exc /\ ~return_exceptions
           THEN o_pc' = "raised" /\ UNCHANGED results
           ELSE /\ results' = [results EXCEPT ![GatherIndex(i, Len(finished))] = e]
                /\ UNCHANGED o_pc
        /\ UNCHANGED <<o_arg, agent_types, tasks, agent_results>>
        /\ UNCHANGED <<apiVars, toolVars, otherVars>>

\* The event loop starts the tasks in creation order.
NextToStart(i) ==
    /\ i \in DOMAIN tasks
    /\ task_state[i] = "ready"
    /\ \A j \in 1..(i - 1) : task_state[j] # "ready"

\* Task i runs BaseAgent.review up to a suspension inside analyze.
TaskSuspend(i) ==
    /\ o_pc = "gather"
    /\ NextToStart(i)
    /\ task_state' = [task_state EXCEPT ![i] = "suspended"]
    /\ events' = Append(events, <<"start", i>>)
    /\ UNCHANGED <<o_pc, o_arg, agent_types, tasks, task_outcome, results,
                   finished, agent_results>>
    /\ UNCHANGED <<apiVars, toolVars, otherVars>>

\* Task i runs BaseAgent.review from start to end without suspending.
TaskRun(i, out) ==
    /\ o_pc = "gather"
    /\ NextToStart(i)
    /\ events' = events \o << <<"start", i>>, <<"end", i>> >>
    /\ TaskFinish(i, out)

\* Task i, suspended inside analyze, is resumed and runs to its end.
TaskResume(i, out) ==
    /\ o_pc = "gather"
    /\ i \in DOMAIN tasks
    /\ task_state[i] = "suspended"
    /\ events' = Append(events, <<"end", i>>)
    /\ TaskFinish(i, out)

\* review_code, lines 62-81: gather is complete; build and return the list.
ReviewCodeReturn ==
    /\ o_pc = "gather"
    /\ \A i \in DOMAIN tasks : task_state[i] = "done"
    /\ agent_results' = ProcessResults(agent_types, results)
    /\ o_pc' = "returned"
    /\ UNCHANGED <<o_arg, agent_types, tasks, task_state, task_outcome, results, finished,
                   events>>
    /\ UNCHANGED <<apiVars, toolVars, otherVars>>

InitOrch == InitApi

NextOrch ==
    \/ \E at \in OrchArgs : ReviewCodeCall(at)
    \/ \E i \in 1..4 : TaskSuspend(i)
    \/ \E i \in 1..4, out \in OrchOutcomes : TaskRun(i, out)
    \/ \E i \in 1..4, out \in OrchOutcomes : TaskResume(i, out)
    \/ ReviewCodeReturn

SpecOrch == InitOrch /\ [][NextOrch]_vars

-----------------------------------------------------------------------------
(* review_code with the agents the orchestrator registers (orchestrator.py,   *)
(* __init__): QualityAgent, SecurityAgent, PerformanceAgent and               *)
(* DocumentationAgent.  SpecOrch above lets analyze suspend, as an analyze of *)
(* any BaseAgent subclass may; the analyze of the four registered agents      *)
(* holds no await.                                                            *)

\* agents/quality_agent.py, security_agent.py, performance_agent.py,
\* documentation_agent.py: whether the body of analyze contains an await.  The
\* analyzers are called as plain functions (run_pylint(code, file_path), ...)
\* that block in subprocess.run.
AnalyzeAwaits(agent) == FALSE

\* the agents whose analyze calls a wrapper of utils/static_analysis.py
UsesSubprocess(agent) == agent \in {QUALITY, SECURITY, PERFORMANCE}

\* Task i runs the review of a registered agent: with no await in analyze the
\* coroutine runs from its start to its end in one step of the event loop.
AgentRun(i, out) ==
    /\ i \in DOMAIN tasks
    /\ ~AnalyzeAwaits(tasks[i])
    /\ TaskRun(i, out)

NextAgents ==
    \/ \E at \in OrchArgs : ReviewCodeCall(at)
    \/ \E i \in 1..4, out \in OrchOutcomes : AgentRun(i, out)
    \/ ReviewCodeReturn

SpecAgents == InitOrch /\ [][NextAgents]_vars

-----------------------------------------------------------------------------
(* Inputs of _check_nested_loops *)

\* longest code, in lines, over the lines of PerfCoreLines
MaxLines == 6

\* longest code, in lines, over all the lines of PerfLines
MaxMixedLines == 3

\* an indented while loop, a break between spaces and a comment
PerfCoreLines == {<<"\t", "w", "h", "i", "l", "e", " ", "x", ":">>, <<" ", "b", "r", "e", "a", "k", " ">>, <<"#", " ", "r", "e", "t", "u", "r", "n">>}

\* more lines: a for loop, a return, a statement that starts like a loop, a
\* condition that ends in return, an empty line
PerfLines ==
    PerfCoreLines \cup {<<"f", "o", "r", " ", "x", ":">>, <<"r", "e", "t", "u", "r", "n">>, <<"f", "o", "r", "m">>,
                        <<"i", "f", " ", "x", ":", " ", "r", "e", "t", "u", "r", "n">>, <<>>}

PerfCodes ==
    {Join(ls, "\n") : ls \in SeqsUpTo(PerfCoreLines, MaxLines) \cup SeqsUpTo(PerfLines, MaxMixedLines)}

NextPerf ==
    \/ \E code \in PerfCodes : CheckNestedLoopsCall(code)
    \/ CheckNestedLoopsLine
    \/ CheckNestedLoopsReturn

SpecPerf == InitApi /\ [][NextPerf]_vars

\* the number of entries that the listings of one walk hold together
MaxEntries == 4

\* the entries of the repositories walked: two files, of which one is a ".py"
\* file, a directory that is entered, one of the skip list and a hidden one
WalkNames == {A_PY, <<"a", "p", "y">>, <<"p", "k", "g">>, <<"v", "e", "n", "v">>, <<".", "x">>}
WalkItem(path, name) ==
    Item(IF name \in {A_PY, <<"a", "p", "y">>} THEN "file" ELSE "dir", name,
         ChildPath(path, name), Len(ChildPath(path, name)))

\* repo.get_contents returned a ContentFile, not a list
Single(item) == [shape |-> "file", item |-> item]

\* the entries an answer of repo.get_contents holds
Entries(answer) ==
    IF answer.kind = "raise" THEN <<>>
    ELSE IF answer.value.shape = "list" THEN answer.value.items
    ELSE <<answer.value.item>>

\* what repo.get_contents may answer for `path`: an exception, a list of up
\* to two entries with different names, or the ".py" file alone
WalkAnswers(path) ==
    {Raised("GithubException", <<"4", "0", "4">>)}
        \cup {Returned(ListOf(<<>>))}
        \cup {Returned(ListOf(<<WalkItem(path, n)>>)) : n \in WalkNames}
        \cup {Returned(Single(WalkItem(path, A_PY)))}
        \cup {Returned(ListOf(<<WalkItem(path, n[1]), WalkItem(path, n[2])>>)) :
                n \in {m \in WalkNames \X WalkNames : m[1] # m[2]}}

RECURSIVE EntriesListed(_)
EntriesListed(listings) ==
    IF listings = <<>> THEN 0
    ELSE Len(Entries(listings[1].answer)) + EntriesListed(Tail(listings))

\* the answers that keep the walk within MaxEntries entries
BoundedAnswers ==
    IF w_stack = <<>> THEN {}
    ELSE {answer \in WalkAnswers(w_stack[Len(w_stack)].path) :
            EntriesListed(w_listings) + Len(Entries(answer)) <= MaxEntries}

\* what the client does during a fetch: the file is returned with its bytes,
\* or as base64 text that holds a character outside ASCII, for which
\* get_file_content raises the ValueError of b64decode
WalkFetches ==
    {<<Returned(<<"repo">>), Returned(ContentFile(Attr(<<120>>), NoneAttr))>>,
     <<Returned(<<"repo">>), Returned(ContentFile(NoneAttr, Attr(<<"U+00E9", "e", "A", "=", "=">>)))>>}

WalkCalls ==
    {[token |-> t, repo_url |-> <<"o", "/", "r">>, ref |-> ref, get_repo |-> r] :
        t \in BOOLEAN, ref \in {None, Some(<<>>), Some(<<"b">>)},
        r \in {Returned(<<"repo">>), Raised("GithubException", <<"x">>)}}

\* a step of the walk
WalkStep ==
    \/ \E answer \in BoundedAnswers : ListDirectory(answer)
    \/ \E fetch \in WalkFetches : VisitItem(fetch[1], fetch[2])
    \/ DirectoryDone

NextWalk ==
    \/ \E call \in WalkCalls : AllPythonFilesCall(call)
    \/ WalkStep

SpecWalk == InitApi /\ [][NextWalk]_vars

\* get_all_python_files is synchronous: once called it runs on, and every call
\* it makes to the client returns or raises
SpecWalkRuns == SpecWalk /\ WF_vars(WalkStep)

-----------------------------------------------------------------------------
(* Claims about the orchestrator and the base agent *)

TaskFailed(i) == task_outcome[i].kind \in {"raise", "review_raises"}

\* C1: for a non-empty agent_types list, review_code returns exactly
\* len(agent_types) entries and entry i has agent_type == agent_types[i],
\* whatever the order in which the agents finish and whichever of them fail.
C1_ResultsFollowAgentTypes ==
    (o_pc = "returned" /\ o_arg # None /\ Val(o_arg) # <<>>) =>
        /\ Len(agent_results) = Len(Val(o_arg))
        /\ \A i \in DOMAIN agent_results : agent_results[i].agent_type = Val(o_arg)[i]

\* C1 witness: a call with two different agent types has returned, the second
\* task finished before the first, and one of them failed.
C1_Witness ==
    /\ o_pc = "returned"
    /\ o_arg # None
    /\ Len(Val(o_arg)) = 2
    /\ Val(o_arg)[1] # Val(o_arg)[2]
    /\ finished = <<2, 1>>
    /\ \E i \in DOMAIN tasks : TaskFailed(i)

\* C2 as stated: with agent_types None or an empty list, review_code runs all
\* four agents and returns four results in declaration order.
C2_Original ==
    (o_pc = "returned" /\ (o_arg = None \/ o_arg = Some(<<>>))) =>
        /\ tasks = AgentTypeList
        /\ Len(agent_results) = 4
        /\ \A i \in 1..4 : agent_results[i].agent_type = AgentTypeList[i]

\* C2 amended: with agent_types None, review_code runs all four agents and
\* returns four results in the order quality, security, performance,
\* documentation; with an empty list it runs no agent and returns an empty list.
C2_DefaultOnlyForNone ==
    /\ (o_pc = "returned" /\ o_arg = None) =>
            /\ tasks = AgentTypeList
            /\ \A i \in 1..4 : task_state[i] = "done"
            /\ Len(agent_results) = 4
            /\ \A i \in 1..4 : agent_results[i].agent_type = AgentTypeList[i]
    /\ (o_pc \in {"gather", "returned"} /\ o_arg = Some(<<>>)) =>
            /\ tasks = <<>>
            /\ agent_results = <<>>

\* C2 witness: a call with agent_types None has returned.
C2_Witness == o_pc = "returned" /\ o_arg = None /\ Len(agent_results) = 4

\* C3: review_code never raises because an agent failed; when it returns,
\* every selected agent has run to completion, each agent that did not fail
\* contributes its own successful result, and each failed agent contributes a
\* result with success = false, issues = [] and error_message set.
C3_FailuresAreIsolated ==
    /\ o_pc # "raised"
    /\ o_pc = "returned" =>
            /\ Len(agent_results) = Len(tasks)
            /\ \A i \in DOMAIN tasks :
                    /\ task_state[i] = "done"
                    /\ agent_results[i].agent_type = tasks[i]
                    /\ TaskFailed(i) =>
                            /\ agent_results[i].success = FALSE
                            /\ agent_results[i].issues = <<>>
                            /\ agent_results[i].error_message = Some(task_outcome[i].msg)
                    /\ ~TaskFailed(i) =>
                            /\ agent_results[i].success = TRUE
                            /\ agent_results[i].issues = task_outcome[i].issues
                            /\ agent_results[i].error_message = None

\* C3 witness: a call has returned in which one agent raised inside analyze,
\* another failed at the scheduling level and a third returned issues.
C3_Witness ==
    /\ o_pc = "returned"
    /\ \E i, j, k \in DOMAIN tasks :
            /\ task_outcome[i].kind = "raise"
            /\ task_outcome[j].kind = "review_raises"
            /\ task_outcome[k].kind = "return"
            /\ task_outcome[k].issues # <<>>
            /\ agent_results[k].issues # <<>>

\* C4: BaseAgent.review never propagates an exception raised by analyze: when
\* analyze raises, the AgentResult has success = false, issues = [] and the
\* exception's message; when analyze returns, it has success = true, no
\* error_message and exactly the returned issues; in both cases metadata is
\* {agent_type, version "1.0.0"}.
C4_ReviewAbsorbsAnalyzeErrors ==
    \A i \in DOMAIN tasks :
        (task_state[i] = "done" /\ task_outcome[i].kind \in {"raise", "return"}) =>
            /\ o_pc # "raised"
            /\ results[i].exc = FALSE
            /\ results[i].value.agent_type = tasks[i]
            /\ results[i].value.metadata = Some([agent_type |-> tasks[i], version |-> "1.0.0"])
            /\ task_outcome[i].kind = "raise" =>
                    /\ results[i].value.success = FALSE
                    /\ results[i].value.issues = <<>>
                    /\ results[i].value.error_message = Some(task_outcome[i].msg)
            /\ task_outcome[i].kind = "return" =>
                    /\ results[i].value.success = TRUE
                    /\ results[i].value.issues = task_outcome[i].issues
                    /\ results[i].value.error_message = None

\* C4 witness: one review whose analyze raised "boom" and one whose analyze
\* returned two issues have both ended.
C4_Witness ==
    \E i, j \in DOMAIN tasks :
        /\ task_state[i] = "done" /\ task_outcome[i] = Outcome("raise", <<>>, "boom", 1)
        /\ task_state[j] = "done" /\ task_outcome[j].kind = "return"
        /\ Len(results[j].value.issues) = 2
-----------------------------------------------------------------------------
(* Claims about create_review, get_reviews and get_review *)

\* C5: create_review selects exactly one content path per request, by this
\* priority: (1) local file when file_path is non-empty and repository_url does
\* not start with "http"; otherwise, for a repository_url starting with "http":
\* (2) whole-repository scan when scan_entire_repo is true, whatever file_path,
\* commit_sha and pull_request_id are; (3) directory scan when file_path is
\* non-blank and (stripped) does not end in ".py"; (4) single hosted file when
\* file_path is non-blank and (stripped) ends in ".py"; (5) commit fetch when
\* commit_sha is non-blank; (6) pull-request fetch when pull_request_id > 0;
\* (7) in every remaining case the request is rejected with status 400 and no
\* path runs.  The path that runs is the one whose fetch function is called.
C5_PathPriority ==
    \A r \in DOMAIN reqs :
        reqs[r].pc # "new" =>
            LET rq == reqs[r].request
                http == StartsWith(rq.repository_url, HTTP)
                pathSet == rq.file_path # None /\ Strip(Val(rq.file_path)) # <<>>
                py == pathSet /\ EndsWith(Strip(Val(rq.file_path)), DOT_PY)
                shaSet == rq.commit_sha # None /\ Strip(Val(rq.commit_sha)) # <<>>
                prSet == rq.pull_request_id # None /\ Val(rq.pull_request_id) > 0
                calls == reqs[r].calls
                local == rq.file_path # None /\ Val(rq.file_path) # <<>> /\ ~http
            IN  /\ Len(calls) <= 1
                /\ local => calls = <<"os.path.exists">>
                /\ (~local /\ http /\ rq.scan_entire_repo) => calls = <<"get_all_python_files">>
                /\ (~local /\ http /\ ~rq.scan_entire_repo /\ pathSet /\ ~py) =>
                        calls = <<"get_python_files_in_directory">>
                /\ (~local /\ http /\ ~rq.scan_entire_repo /\ pathSet /\ py) =>
                        calls = <<"get_file_content">>
                /\ (~local /\ http /\ ~rq.scan_entire_repo /\ ~pathSet /\ shaSet) =>
                        calls = <<"get_commit_files">>
                /\ (~local /\ http /\ ~rq.scan_entire_repo /\ ~pathSet /\ ~shaSet /\ prSet) =>
                        calls = <<"get_pull_request_files">>
                /\ (~local /\ ~(http /\ (rq.scan_entire_repo \/ pathSet \/ shaSet \/ prSet))) =>
                        /\ calls = <<>>
                        /\ reqs[r].pc = "done"
                        /\ reqs[r].response = ErrorResponse("create", 400)
                        /\ reviews = <<>>

\* C5 witness: a request with scan_entire_repo true and with a file path, a
\* commit and a pull request all usable took the whole-repository path and is
\* awaiting the orchestrator.
C5_Witness ==
    /\ reqs[1].pc = "await"
    /\ reqs[1].request.scan_entire_repo
    /\ reqs[1].request.file_path = Some(A_PY)
    /\ reqs[1].request.commit_sha = Some(<<"c">>)
    /\ reqs[1].request.pull_request_id = Some(1)
    /\ reqs[1].calls = <<"get_all_python_files">>
    /\ Len(reviews) = 1

RowsFor(id) == Len(SelectSeq(review_results, LAMBDA row : row.review_id = id))

TotalIssuesAgree(response) ==
    /\ response.total_issues = RowsFor(response.review_id)
    /\ response.total_issues = CountIssues(response.results)

\* C6: in every response of create_review, get_reviews and get_review,
\* total_issues equals the number of ReviewResult rows stored for that review
\* at the time of the response, and equals the sum of the lengths of the issues
\* lists of the response's results.
C6_TotalIssuesMatchRows ==
    /\ (resp.route \in {"create", "get"} /\ resp.status_code = 200) => TotalIssuesAgree(resp)
    /\ resp.route = "list" => \A k \in DOMAIN resp.items : TotalIssuesAgree(resp.items[k])

IssuesOf(response, agent) ==
    SumSeq([k \in DOMAIN response.results |->
                IF response.results[k].agent_type = agent
                THEN Len(response.results[k].issues) ELSE 0])

\* C7: round trip: after create_review succeeded for a single file, get_review
\* on the returned review_id (the review still being the one that request
\* created) yields the same total_issues and, for every agent type, the same
\* number of issues as the creation response.
C7_RoundTrip ==
    (resp.route = "get" /\ resp.status_code = 200) =>
        \A r \in DOMAIN reqs :
            ( /\ reqs[r].pc = "done"
              /\ reqs[r].path \in SinglePaths
              /\ reqs[r].response.status_code = 200
              /\ reqs[r].response.review_id = resp.review_id
              /\ \E k \in DOMAIN reviews :
                    reviews[k].id = resp.review_id /\ reviews[k].created_by = r ) =>
                /\ resp.total_issues = reqs[r].response.total_issues
                /\ \A a \in AgentType : IssuesOf(resp, a) = IssuesOf(reqs[r].response, a)

\* C8: every Review row is created "pending" with completed_at null; its only
\* change is a single transition to "completed", made by the request that
\* created it, which sets completed_at in the same commit; so status is
\* "completed" exactly when completed_at is set.
C8_StatusLifecycle ==
    \A k \in DOMAIN reviews :
        /\ reviews[k].status \in {"pending", "completed"}
        /\ reviews[k].status = "completed" <=> reviews[k].completed_at # None
        /\ reviews[k].status = "pending" => reviews[k].completed_by = <<>>
        /\ reviews[k].status = "completed" =>
                reviews[k].completed_by = <<reviews[k].created_by>>

\* the agent types review_code runs for request r
AgentsRun(r) == Range(BuildTasks(DefaultAgentTypes(AgentTypesOrNone(reqs[r].request.agent_types))))

\* the issues of agent type a in one review_code return, each with its path
IssuesOfAgent(file_results, a, p) ==
    Concat([k \in DOMAIN file_results |->
                IF file_results[k].agent_type = a
                THEN [n \in DOMAIN file_results[k].issues |->
                        IssueWithPath(file_results[k].issues[n], p)]
                ELSE <<>>])

ScanResponded(r) ==
    /\ reqs[r].pc = "done"
    /\ reqs[r].path \in ScanPaths
    /\ reqs[r].response.status_code = 200

\* C9: the response of a whole-repository or directory scan holds exactly one
\* AgentResult for each agent type that was run on the files, never two of the
\* same agent_type, and its issues are the concatenation, in file-processing
\* order, of the issues the agent produced for each processed file.
C9_OneMergedResultPerAgent ==
    \A r \in DOMAIN reqs :
        ScanResponded(r) =>
            LET rs == reqs[r].response.results
            IN  /\ {rs[k].agent_type : k \in DOMAIN rs} = AgentsRun(r)
                /\ Len(rs) = Cardinality(AgentsRun(r))
                /\ \A k \in DOMAIN rs :
                        rs[k].issues =
                            Concat([f \in DOMAIN reqs[r].history |->
                                      IssuesOfAgent(reqs[r].history[f], rs[k].agent_type,
                                                    reqs[r].files[f].path)])

\* C10: in a multi-file scan the merged AgentResult of an agent type has
\* success == true exactly when every per-file invocation of that agent
\* returned success == true.
C10_MergedSuccessIsConjunction ==
    \A r \in DOMAIN reqs :
        ScanResponded(r) =>
            \A k \in DOMAIN reqs[r].response.results :
                reqs[r].response.results[k].success =
                    (\A f \in DOMAIN reqs[r].history :
                        \A n \in DOMAIN reqs[r].history[f] :
                            reqs[r].history[f][n].agent_type =
                                reqs[r].response.results[k].agent_type
                            => reqs[r].history[f][n].success)

\* the execution_time of agent type a in one review_code return
TimeOfAgent(file_results, a) ==
    SumSeq([k \in DOMAIN file_results |->
                IF file_results[k].agent_type = a THEN file_results[k].execution_time ELSE 0])

\* C11: in a multi-file scan, the merged AgentResult's execution_time for an
\* agent type equals the sum, over the processed files, of the execution_time
\* of that agent's per-file result, each file counted once whatever number of
\* issues it produced.
C11_MergedTimeIsSumOverFiles ==
    \A r \in DOMAIN reqs :
        ScanResponded(r) =>
            \A k \in DOMAIN reqs[r].response.results :
                reqs[r].response.results[k].execution_time =
                    SumSeq([f \in DOMAIN reqs[r].history |->
                              TimeOfAgent(reqs[r].history[f],
                                          reqs[r].response.results[k].agent_type)])

Min(a, b) == IF a < b THEN a ELSE b

\* the text names the number n
Reports(text, n) == \E i \in DOMAIN text : text[i] = ToString(n)

\* C12: for a whole-repository or directory scan whose fetch returns N files,
\* the orchestrator is invoked exactly min(N, 50) times, once for each of the
\* first min(N, 50) files in fetch order, each invocation starting only after
\* the previous one has completed; files beyond the 50th are never analysed,
\* and when N > 50 the display file_path reports both 50 and N.
C12_ScanProcessesFirstFifty ==
    \A r \in DOMAIN reqs :
        LET q == reqs[r]
        IN  (q.pc # "new" /\ q.path \in ScanPaths) =>
                /\ Len(q.analysed) <= Min(q.found, 50)
                /\ \A i \in DOMAIN q.analysed : q.analysed[i] = ScanFile(i).path
                /\ Len(q.history) <= Len(q.analysed)
                /\ Len(q.analysed) <= Len(q.history) + 1
                /\ q.pc = "done" =>
                        /\ Len(q.analysed) = Min(q.found, 50)
                        /\ Len(q.history) = Min(q.found, 50)
                /\ (q.pc = "done" /\ q.found > 50) =>
                        /\ Reports(q.response.file_path, 50)
                        /\ Reports(q.response.file_path, q.found)
                        /\ \A k \in DOMAIN reviews :
                                reviews[k].id = q.review_id =>
                                    /\ Reports(reviews[k].file_path, 50)
                                    /\ Reports(reviews[k].file_path, q.found)

\* C12 witness: a scan that found more than 50 files has answered after 50 invocations
\* of the orchestrator.
C12_Witness ==
    /\ reqs[1].pc = "done"
    /\ reqs[1].path \in ScanPaths
    /\ reqs[1].found > 50
    /\ Len(reqs[1].history) = 50
    /\ Len(reqs[1].analysed) = 50
    /\ reqs[1].response.status_code = 200

\* the issues the agents produced for request r, in the order in which
\* create_review handles them, each with the path of its file
ProducedIssues(r) ==
    Concat([f \in DOMAIN reqs[r].history |->
        Concat([n \in DOMAIN reqs[r].history[f] |->
            [k \in DOMAIN reqs[r].history[f][n].issues |->
                [issue |-> reqs[r].history[f][n].issues[k],
                 agent_type |-> reqs[r].history[f][n].agent_type,
                 p |-> reqs[r].analysed[f]]]])])

\* the issues of agent type a in a response
ResponseIssues(response, a) ==
    Concat([n \in DOMAIN response.results |->
                IF response.results[n].agent_type = a THEN response.results[n].issues
                ELSE <<>>])

\* message msg and metadata meta are those of the produced issue, tagged with
\* its path exactly once
TaggedOnce(msg, meta, produced) ==
    LET tag == <<"[">> \o produced.p \o <<"]">>
        was == produced.issue.message
    IN  /\ StartsWith(msg, tag)
        /\ IF StartsWith(was, tag) THEN msg = was
           ELSE msg = tag \o <<" ">> \o was
        /\ <<"file_path", produced.p>> \in meta
        /\ \A kv \in meta : kv[1] = "file_path" => kv[2] = produced.p
        /\ \A kv \in produced.issue.metadata : kv[1] # "file_path" => kv \in meta

\* C13: every ReviewResult row written by create_review, and every issue in
\* its response, has a message that starts with "[p]" where p is the path of
\* the file the issue came from, with the prefix present exactly once even
\* when the agent's message already started with "[p]", and has metadata
\* file_path == p; severity, issue_type, line_number and suggestion are those
\* the agent produced.
C13_IssuesCarryTheirPath ==
    \A r \in DOMAIN reqs :
        (reqs[r].pc = "done" /\ reqs[r].response.status_code = 200) =>
            LET produced == ProducedIssues(r)
                rows == SelectSeq(review_results, LAMBDA row : row.written_by = r)
            IN  /\ Len(rows) = Len(produced)
                /\ \A i \in DOMAIN rows :
                        /\ TaggedOnce(rows[i].message, rows[i].meta_data, produced[i])
                        /\ rows[i].severity = produced[i].issue.severity
                        /\ rows[i].issue_type = produced[i].issue.issue_type
                        /\ rows[i].line_number = produced[i].issue.line_number
                        /\ rows[i].suggestion = produced[i].issue.suggestion
                        /\ rows[i].agent_type = produced[i].agent_type
                /\ \A a \in AgentType :
                        LET got == ResponseIssues(reqs[r].response, a)
                            want == SelectSeq(produced, LAMBDA x : x.agent_type = a)
                        IN  /\ Len(got) = Len(want)
                            /\ \A i \in DOMAIN got :
                                  /\ TaggedOnce(got[i].message, got[i].metadata, want[i])
                                  /\ got[i].severity = want[i].issue.severity
                                  /\ got[i].issue_type = want[i].issue.issue_type
                                  /\ got[i].line_number = want[i].issue.line_number
                                  /\ got[i].suggestion = want[i].issue.suggestion

\* C13 witness: a two-file scan has answered with an issue whose message the
\* agent had already tagged with the path of its file and one it had not.
C13_Witness ==
    /\ reqs[1].pc = "done"
    /\ reqs[1].path \in ScanPaths
    /\ Len(reqs[1].history) = 2
    /\ reqs[1].response.status_code = 200
    /\ \E i, j \in DOMAIN review_results :
            /\ review_results[i].message = <<"[", "f", "1", "]", " ", "n">>
            /\ review_results[j].message = <<"[", "f", "2", "]", " ", "m">>

\* request r raised after content resolution had succeeded and its Review row
\* had been committed: the exception is not one of the designated client errors
\* of content resolution
FailedAfterReviewRow(r) ==
    /\ reqs[r].pc = "done"
    /\ reqs[r].review_id # 0
    /\ reqs[r].response.status_code # 200

\* C14: any unexpected exception raised at any step of create_review,
\* including while the files of a whole-repository or directory scan are being
\* processed after the Review row exists, is answered with status 500 and the
\* request's database transaction is rolled back (none of its ReviewResult
\* rows is stored).
C14_UnexpectedErrorsAre500 ==
    \A r \in DOMAIN reqs :
        FailedAfterReviewRow(r) =>
            /\ reqs[r].response.status_code = 500
            /\ reqs[r].pending = <<>>
            /\ \A k \in DOMAIN review_results : review_results[k].written_by # r

\* C15: whenever create_review fails because content resolution failed
\* (missing local file, hosted fetch error, empty file set, no usable
\* selector), the Review and ReviewResult tables are left exactly as they were
\* before the request, and no response with status "completed" is returned.
C15_FailedResolutionLeavesTables ==
    [][\A r \in DOMAIN reqs :
          (reqs[r].pc = "new" /\ reqs'[r].pc = "done") =>
              /\ reviews' = reviews
              /\ review_results' = review_results
              /\ reqs'[r].review_id = 0
              /\ resp'.route = "create"
              /\ resp'.status_code \in {400, 404}]_vars

\* C15 witness: a request has failed in content resolution (a scan that found
\* no file) at a time when the tables held a completed review and its results.
C15_Witness ==
    \E r \in DOMAIN reqs :
        /\ reqs[r].pc = "done"
        /\ reqs[r].path = "repo_scan"
        /\ reqs[r].review_id = 0
        /\ reqs[r].response.status_code = 404
        /\ Len(reviews) = 1
        /\ reviews[1].status = "completed"
        /\ Len(review_results) >= 1

\* the content request r asked for could not be located
NotFound(r) ==
    LET q == reqs[r]
        nothing == q.fetched.kind = "ok" /\ q.fetched.files = <<>>
    IN  \/ q.path = "local" /\ nothing
        \/ q.path \in {"hosted_file", "dir_scan"} /\ q.fetched.kind = "value_error"
        \/ q.path \in {"commit", "pr"} /\ q.fetched.kind # "ok" /\ SaysNotFound(q.fetched.msg)
        \/ q.path \in ScanPaths /\ nothing

\* C16: each not-found condition is answered with status 404: an unknown
\* review id in get_review, and in create_review a local file path that does
\* not exist, a hosted file, directory, commit or pull request that cannot be
\* located, and an empty file set from a whole-repository or directory scan.
C16_NotFoundIs404 ==
    /\ \A r \in DOMAIN reqs :
            (reqs[r].pc = "done" /\ NotFound(r)) => reqs[r].response.status_code = 404
    /\ resp.route = "get" =>
            /\ resp.status_code \in {200, 404}
            /\ reviews = <<>> => resp.status_code = 404
            /\ resp.status_code = 200 =>
                    \E k \in DOMAIN reviews : reviews[k].id = resp.review_id

\* the answer of a clear_all_reviews call that committed
Cleared(answer) == answer.route = "clear" /\ answer.status_code = 200

\* C17: clear_all_reviews, from any database state, deletes every ReviewResult
\* row and every Review row (results before reviews), leaves every Repository
\* row unchanged, and reports deleted_results and deleted_reviews equal to the
\* numbers of rows that existed; a list-reviews call right after it returns an
\* empty list, and a second clear reports 0 and 0.  The route answers 200
\* whenever the database executes its statements; when the database raises
\* it answers 500 and the three tables are as they were.
C17_ClearAllReviews ==
    [][/\ resp'.route = "clear" =>
            /\ resp'.status_code \in {200, 500}
            /\ repositories' = repositories
            /\ resp'.status_code = 200 =>
                    /\ reviews' = <<>>
                    /\ review_results' = <<>>
                    /\ resp'.deleted_reviews = Len(reviews)
                    /\ resp'.deleted_results = Len(review_results)
                    /\ resp'.fk_held
            /\ resp'.status_code = 500 =>
                    reviews' = reviews /\ review_results' = review_results
       /\ (Cleared(resp) /\ resp'.route = "list") => resp'.items = <<>>
       /\ (Cleared(resp) /\ Cleared(resp')) =>
            /\ resp'.deleted_reviews = 0
            /\ resp'.deleted_results = 0]_vars

\* C17 witness: clear_all_reviews has just removed a review and its results
\* from a database that holds a repository.
C17_Witness ==
    /\ Cleared(resp)
    /\ resp.deleted_reviews >= 1
    /\ resp.deleted_results >= 1
    /\ repositories # <<>>
    /\ reviews = <<>>
    /\ review_results = <<>>

-----------------------------------------------------------------------------
(* Claims about the tool wrappers *)

\* C18: none of run_pylint, run_flake8, run_bandit, run_radon ever raises to
\* its caller: a subprocess timeout yields a dictionary with success == false
\* and error mentioning "Timeout", and any other failure of temp-file creation,
\* the subprocess or output parsing yields a dictionary with success == false
\* and an error message.
C18_WrappersNeverRaise ==
    /\ t_pc # "raised"
    /\ (t_pc = "returned" /\ t_exc.kind = "TimeoutExpired") =>
            /\ t_result.success = FALSE
            /\ t_result.error = "Timeout"
    /\ (t_pc = "returned" /\ t_exc.kind = "Exception") =>
            /\ t_result.success = FALSE
            /\ "error" \in DOMAIN t_result
            /\ t_result.error = t_exc.msg
    /\ (t_pc = "returned" /\ t_exc = NoExc) => t_result.success = TRUE

\* C18 witness: run_radon has returned after its second subprocess timed out.
C18_Witness ==
    /\ t_pc = "returned"
    /\ t_tool = "radon"
    /\ Len(t_stdout) = 1
    /\ t_exc.kind = "TimeoutExpired"
    /\ t_result = [success |-> FALSE, error |-> "Timeout"]

\* C19: when any of the four tool wrappers returns, no temporary file created
\* by that call still exists, for every outcome of the steps after the file
\* was created: writing the code into it, running the subprocess (normal exit,
\* timeout, exception) and parsing the output (success or parse error).
C19_TempFileRemoved == t_pc \in {"returned", "raised"} => t_temp # "exists"

-----------------------------------------------------------------------------
(* Claims about the concurrency of the agents *)

\* the position of event e in the history of the call
EventAt(e) == CHOOSE n \in DOMAIN events : events[n] = e

\* the analyses of tasks i and j overlapped: each started before the other ended
Overlapped(i, j) ==
    /\ EventAt(<<"start", j>>) < EventAt(<<"end", i>>)
    /\ EventAt(<<"start", i>>) < EventAt(<<"end", j>>)

\* C20: within one review_code call the selected agents run concurrently: each
\* agent suspends while its external analyzer subprocess runs, so that another
\* selected agent's analysis starts before the first agent's analysis has
\* finished, and the review does not complete only after the agents have run
\* one after another.
C20_AgentsRunConcurrently ==
    o_pc = "returned" =>
        \A i, j \in DOMAIN tasks :
            (i < j /\ UsesSubprocess(tasks[i]) /\ UsesSubprocess(tasks[j])) =>
                Overlapped(i, j)

-----------------------------------------------------------------------------
(* Claims about the database under concurrent requests *)

\* C21: referential integrity holds in every reachable database state, under
\* any sequence and any interleaving of create-review, clear-all, list and get
\* requests: every ReviewResult row's review_id names an existing Review row
\* and every Review row's repository_id names an existing Repository row.
C21_ReferentialIntegrity ==
    /\ \A k \in DOMAIN review_results :
            \E j \in DOMAIN reviews : reviews[j].id = review_results[k].review_id
    /\ \A j \in DOMAIN reviews :
            \E n \in DOMAIN repositories : repositories[n].id = reviews[j].repository_id

\* C21 witness: a request whose Review row was deleted while it awaited the
\* orchestrator has ended, and the database holds the rows of another request.
C21_Witness ==
    /\ \E r \in DOMAIN reqs : FailedAfterReviewRow(r)
    /\ review_results # <<>>
    /\ reviews # <<>>

\* C29: under any interleaving of create-review and clear-all requests, every
\* ReviewResult row persisted by a create-review request references the
\* Review row that this same request created, and a Review row is marked
\* "completed" only by the request that created it, also when the database
\* gives a new review the id of a review that clear-all deleted while its
\* creating request was awaiting the orchestrator.
C29_RowsBelongToTheirRequest ==
    /\ \A k \in DOMAIN review_results :
            \E j \in DOMAIN reviews :
                /\ reviews[j].id = review_results[k].review_id
                /\ reviews[j].created_by = review_results[k].written_by
    /\ \A j \in DOMAIN reviews :
            \A n \in DOMAIN reviews[j].completed_by :
                reviews[j].completed_by[n] = reviews[j].created_by

-----------------------------------------------------------------------------
(* Claims about the dashboard *)

\* the step is a click on Clear All History
ClearClicked ==
    /\ Len(d_log') = Len(d_log) + 1
    /\ d_log'[Len(d_log')].event = "click"

\* the step sends DELETE /reviews
DeleteCalled == d_pc # "deleting" /\ d_pc' = "deleting"

\* the step is the arrival of the answer of the DELETE, or its failure
DeleteEnded ==
    /\ Len(d_log') = Len(d_log) + 1
    /\ d_log'[Len(d_log')].event = "delete"

\* C22: Clear All History: the delete-all route is called only by a click made
\* while the confirmation flag is armed; a click made while the flag is not
\* armed only arms it and never calls the route; after a successful delete the
\* flag is disarmed and the stored last review is removed, so the next click
\* only arms the flag again.
C22_TwoStepClear ==
    [][ /\ DeleteCalled => ClearClicked /\ session_state.confirm_clear = Some(TRUE)
        /\ ((reviews # <<>> /\ reviews' = <<>>) \/ (resp'.route = "clear" /\ resp' # resp))
            => /\ d_pc = "deleting"
               /\ d_log[Len(d_log)] = Click(TRUE)
        /\ (ClearClicked /\ session_state.confirm_clear # Some(TRUE))
            => /\ session_state' = [session_state EXCEPT !.confirm_clear = Some(TRUE)]
               /\ ~DeleteCalled
               /\ UNCHANGED <<repositories, reviews, review_results>>
        /\ (DeleteEnded /\ d_log'[Len(d_log')].status_code = 200)
            => /\ session_state'.confirm_clear = Some(FALSE)
               /\ session_state'.last_review = None
        /\ \A i \in 1..(Len(d_log') - 1) :
                (d_log'[i].event = "delete" /\ d_log'[i].status_code = 200)
                    => (d_log'[i + 1].event = "click" /\ ~d_log'[i + 1].armed)
      ]_vars

\* C22 witness: a first click armed the flag, a second one deleted the history
\* while a last review was stored, and a third click was made afterwards.
C22_Witness ==
    /\ Len(d_log) = 4
    /\ d_log[1].event = "click" /\ ~d_log[1].armed
    /\ d_log[3].event = "delete" /\ d_log[3].status_code = 200 /\ d_log[3].had_last_review
    /\ d_log[4].event = "click"
    /\ session_state.last_review = None

-----------------------------------------------------------------------------
(* Claims about the analytics route *)

\* the counts of an analytics response agree with each other
CountsAgree(a) ==
    /\ SumValues(a.severity_stats) = a.total_issues
    /\ SumValues(a.agent_stats) = a.total_issues
    /\ a.completed_reviews <= a.total_reviews
    /\ a.total_reviews = 0 => a.success_rate = 0
    /\ a.success_rate >= 0 /\ a.success_rate <= 100 * 100

\* C23 as stated: the counts agree and success_rate is exactly
\* completed_reviews / total_reviews x 100 (success_rate is in hundredths).
C23_Original ==
    resp.route = "analytics" =>
        /\ CountsAgree(resp)
        /\ resp.total_reviews > 0 =>
                resp.success_rate * resp.total_reviews = resp.completed_reviews * 100 * 100

\* C23: in every database state the analytics route returns counts that agree
\* with each other: the severity_stats values and the agent_stats values each
\* sum to total_issues, completed_reviews is at most total_reviews, and
\* success_rate is 0 without reviews and otherwise completed_reviews /
\* total_reviews x 100 rounded to two decimals: at most half a hundredth away
\* from the quotient, and between 0 and 100.
C23_AnalyticsCountsAgree ==
    resp.route = "analytics" =>
        /\ CountsAgree(resp)
        /\ resp.total_reviews > 0 =>
                LET off == resp.success_rate * resp.total_reviews
                                - resp.completed_reviews * 100 * 100
                IN  2 * off <= resp.total_reviews /\ 2 * (0 - off) <= resp.total_reviews

\* C23 witness: analytics over three reviews of which two are completed, with
\* issues of two severities from two agents.
C23_Witness ==
    /\ resp.route = "analytics"
    /\ resp.total_reviews = 3
    /\ resp.completed_reviews = 2
    /\ resp.success_rate = 6667
    /\ Cardinality(DOMAIN resp.severity_stats) = 2
    /\ Cardinality(DOMAIN resp.agent_stats) = 2

-----------------------------------------------------------------------------
(* Claims about the GitHub integration *)

\* a call of get_file_content has ended
FileContentEnded == g_pc \in {"returned", "raised"}

\* the exception the GitHub client raised during the call, if it raised one
\* that is not a ValueError
ClientFailure ==
    IF ~g_in.token \/ RepoPath(g_in.repo_url).kind = "raise" THEN None
    ELSE IF g_in.get_repo.kind = "raise"
         THEN IF g_in.get_repo.type \in ValueErrors THEN None ELSE Some(g_in.get_repo)
    ELSE IF g_in.get_contents.kind = "raise" /\ g_in.get_contents.type \notin ValueErrors
         THEN Some(g_in.get_contents)
    ELSE None

\* C24: get_file_content either returns non-blank text obtained by
\* UTF-8-decoding the file or raises a ValueError; it never returns empty or
\* whitespace-only text, and every failure of the fetch reaches the caller as
\* a ValueError with a not-found, forbidden or generic message according to
\* the underlying error text.
C24_FileContentOrValueError ==
    FileContentEnded =>
        /\ g_result.kind = "raise" => g_result.type \in ValueErrors
        /\ g_result.kind = "return" => ~Blank(g_result.value)
        /\ ClientFailure # None =>
                /\ g_result.kind = "raise"
                /\ g_result.msg \in {<<"not_found">>, <<"forbidden">>,
                                     <<"generic">> \o Val(ClientFailure).msg}

-----------------------------------------------------------------------------
(* Claims about the rows of a scan *)

\* the ReviewResult rows of the i-th file request r has processed
RowsOfFile(r, i) ==
    RowsOfResults(reqs[r].history[i], reqs[r].review_id, reqs[r].files[i].path, r)

\* the rows are in the table review_results
Committed(rows) ==
    \A k \in DOMAIN rows : \E j \in DOMAIN review_results : review_results[j] = rows[k]

\* C25: in a whole-repository or directory scan, once file k has been
\* processed its ReviewResult rows are committed; they are in the database
\* while the later files of the batch are processed, and stay there if the
\* request then fails.
C25_RowsPersistedPerFile ==
    \A r \in DOMAIN reqs :
        (reqs[r].path \in ScanPaths /\ reviews # <<>>
            /\ \E j \in DOMAIN reviews : reviews[j].created_by = r
                                            /\ reviews[j].id = reqs[r].review_id)
            => \A i \in DOMAIN reqs[r].history :
                    (i < Len(reqs[r].files) \/ reqs[r].pc = "done") => Committed(RowsOfFile(r, i))

\* C26: for a whole-repository scan the file_path stored on the Review row
\* equals the file_path of the creation response: "Repository scan (50/N files
\* processed)" when N > 50 files were found, "Repository scan (N files)"
\* otherwise.
C26_StoredPathIsResponsePath ==
    \A r \in DOMAIN reqs :
        (reqs[r].pc = "done" /\ reqs[r].path = "repo_scan"
            /\ reqs[r].response.status_code = 200)
            => /\ reqs[r].response.file_path =
                    IF reqs[r].found > 50
                    THEN <<"Repository scan (", "50", "/", ToString(reqs[r].found),
                           " files processed)">>
                    ELSE <<"Repository scan (", ToString(reqs[r].found), " files)">>
               /\ \A j \in DOMAIN reviews :
                    reviews[j].id = reqs[r].response.review_id
                        => reviews[j].file_path = reqs[r].response.file_path

-----------------------------------------------------------------------------
(* Claims about the performance agent *)

\* line n of the code, stripped
StrippedLine(n) == Strip(p_lines[n])

\* line n starts a loop
LoopAt(n) == StartsWith(StrippedLine(n), FOR_) \/ StartsWith(StrippedLine(n), WHILE_)

\* line n is a statement, not a comment, that starts with "return" or "break"
ExitAt(n) ==
    /\ StrippedLine(n) # <<>>
    /\ StrippedLine(n)[1] # "#"
    /\ (StartsWith(StrippedLine(n), RETURN) \/ StartsWith(StrippedLine(n), BREAK))

\* the loop lines met since the last reset
LoopsSinceReset == {j \in (p_reset + 1)..p_line_num : LoopAt(j)}

\* C27: _check_nested_loops, scanning the lines in order: the depth counter
\* grows by one at every line whose stripped text starts with "for " or
\* "while " and is otherwise changed only by a reset; at each non-comment line
\* starting with "return" or "break" met while depth > 0, exactly one
\* nested_loops issue is emitted if the maximum depth since the last reset is
\* >= 3 and none otherwise, its line number is that of the first loop line
\* since the last reset, and depth and maximum depth are both reset to 0
\* whether or not an issue was emitted; no issue is emitted at any other line
\* nor at the end of the file.
C27_NestedLoops ==
    [][ /\ p_line_num' = p_line_num + 1 =>
            /\ LoopAt(p_line_num') =>
                    p_loop_depth' = p_loop_depth + 1 /\ p_issues' = p_issues
            /\ (~LoopAt(p_line_num') /\ ExitAt(p_line_num') /\ p_loop_depth > 0) =>
                    /\ p_loop_depth' = 0
                    /\ p_max_depth' = 0
                    /\ p_issues' =
                        IF Cardinality(LoopsSinceReset) >= 3
                        THEN Append(p_issues,
                                    NestedLoopsIssue(Cardinality(LoopsSinceReset),
                                        CHOOSE j \in LoopsSinceReset :
                                            \A k \in LoopsSinceReset : j <= k))
                        ELSE p_issues
            /\ (~LoopAt(p_line_num') /\ ~(ExitAt(p_line_num') /\ p_loop_depth > 0)) =>
                    UNCHANGED <<p_loop_depth, p_max_depth, p_issues>>
        /\ p_line_num' = p_line_num => p_issues' = p_issues
      ]_vars

\* C27 witness: a call has returned one issue for a nest of depth three that
\* starts on line 3, after a first loop that was closed on line 2 without an
\* issue.
C27_Witness ==
    /\ p_pc = "returned"
    /\ Len(p_lines) = 6
    /\ p_reset = 6
    /\ Len(p_issues) = 1
    /\ p_issues[1].line_number = Some(3)
    /\ p_issues[1].metadata = {<<"depth", 3>>}

-----------------------------------------------------------------------------
(* Claims about the walk of a repository *)

\* the entries the repository listed for `path` during the walk: none if the
\* path was not listed or its listing failed
ListedUnder(path) ==
    IF \E k \in DOMAIN w_listings : w_listings[k].args[1] = path
    THEN Entries(w_listings[CHOOSE k \in DOMAIN w_listings : w_listings[k].args[1] = path].answer)
    ELSE <<>>

\* the record of a file whose content fetch succeeded, nothing otherwise
FetchedRecord(item) ==
    IF \E k \in DOMAIN w_fetches :
            w_fetches[k].args[2] = item.path /\ w_fetches[k].result.kind = "return"
    THEN <<[path |-> item.path,
            content |-> w_fetches[CHOOSE k \in DOMAIN w_fetches :
                                        w_fetches[k].args[2] = item.path].result.value,
            size |-> item.size]>>
    ELSE <<>>

\* the records of the ".py" files reachable from `path` through directories
\* that are neither in the skip list nor dot-prefixed, depth first in listing
\* order
RECURSIVE ReachableFrom(_, _)
ReachableFrom(path, from) ==
    LET items == ListedUnder(path)
        item == items[from]
        here == IF item.type = "file" /\ EndsWith(item.name, <<".", "p", "y">>)
                THEN FetchedRecord(item)
                ELSE IF item.type = "dir" /\ item.name \notin skip_dirs /\ item.name[1] # "."
                     THEN ReachableFrom(item.path, 1)
                     ELSE <<>>
    IN  IF from > Len(items) THEN <<>> ELSE here \o ReachableFrom(path, from + 1)

\* C28: get_all_python_files, once the repository is resolved, terminates
\* without raising and returns exactly one record for each ".py" file that is
\* reachable from the root through directories that are neither in the skip
\* list nor dot-prefixed and whose content fetch succeeded, in depth-first
\* listing order; a failed listing removes only the files under that
\* directory and a failed fetch only that file.
C28_WalkReturnsReachableFiles ==
    /\ [](w_pc = "raised" =>
            GetRepository(w_in.token, w_in.repo_url, w_in.get_repo).kind = "raise")
    /\ [](w_pc = "returned" =>
            w_result = Returned(w_files) /\ w_files = ReachableFrom(<<>>, 1))
    /\ (w_pc = "walking" ~> w_pc = "returned")

\* C28 witness: a walk with the ref "" has returned the file of a directory
\* before the file that follows the directory in the root, after the listing
\* of a subdirectory failed; no call passed the ref on.
C28_Witness ==
    /\ w_pc = "returned"
    /\ w_in.ref = Some(<<>>)
    /\ \A k \in DOMAIN w_listings : Len(w_listings[k].args) = 1
    /\ \A k \in DOMAIN w_fetches : Len(w_fetches[k].args) = 2
    /\ \E k \in DOMAIN w_listings :
            /\ w_listings[k].answer.kind = "raise"
            /\ w_listings[k].args[1] = <<"p", "k", "g", "/", "p", "k", "g">>
    /\ Len(w_files) = 2
    /\ w_files[1].path = <<"p", "k", "g", "/">> \o A_PY
    /\ w_files[2].path = A_PY

-----------------------------------------------------------------------------
(* Claims about the Repository table *)

\* the rows of the Repository table whose url is exactly `url`
RowsWithUrl(rows, url) == {k \in DOMAIN rows : rows[k].url = url}

\* request r enters create_review in this step
Enters(r) == reqs[r].pc = "new" /\ reqs'[r].pc # "new"

\* C30: after any sequence and any interleaving of create-review requests the
\* Repository table holds at most one row per distinct repository_url string:
\* a request whose URL is already stored reuses that row and creates none, a
\* request whose URL is new creates exactly one, and URLs that differ in any
\* character get distinct rows.
C30_OneRepositoryPerUrl ==
    /\ [](\A i, j \in DOMAIN repositories :
            repositories[i].url = repositories[j].url => i = j)
    /\ [](\A r \in DOMAIN reqs :
            reqs[r].pc # "new" =>
                Cardinality(RowsWithUrl(repositories, reqs[r].request.repository_url)) = 1)
    /\ [][ /\ \A r \in DOMAIN reqs :
                Enters(r) =>
                    IF RowsWithUrl(repositories, reqs'[r].request.repository_url) # {}
                    THEN repositories' = repositories
                    ELSE /\ Len(repositories') = Len(repositories) + 1
                         /\ SubSeq(repositories', 1, Len(repositories)) = repositories
                         /\ repositories'[Len(repositories')].url =
                                reqs'[r].request.repository_url
           /\ (\A r \in DOMAIN reqs : ~Enters(r)) => repositories' = repositories
         ]_vars

\* C30 witness: two requests for URLs that differ only in a trailing slash have
\* entered and the table holds one row for each of the two URLs.
C30_Witness ==
    /\ Len(repositories) = 2
    /\ repositories[1].url = HOSTED_URL
    /\ repositories[2].url = HOSTED_URL \o <<"/">>
    /\ \A r \in DOMAIN reqs : reqs[r].pc # "new"
    /\ reqs[1].request.repository_url = HOSTED_URL \o <<"/">>
    /\ reqs[2].request.repository_url = HOSTED_URL

====
